---------------------------- MODULE Spec2Model ----------------------------
(***************************************************************************)
(* Verification model of the plain-C 4x4 nonbonded cluster-pair kernel     *)
(* inner loop (src/unnamed/part_000).                                      *)
(*                                                                         *)
(* The inner loop is a preprocessor template.  Its build flags             *)
(* (CHECK_EXCLS, CALC_COULOMB, CALC_COUL_RF, HALF_LJ, COUNT_PAIRS,         *)
(* CALC_ENERGIES, ENERGY_GROUPS) are fields of a configuration record.     *)
(* The three energy-handling builds (no energies, total energies, energy   *)
(* groups) are run side by side on the same pair list and the same         *)
(* particle data: every buffer variable is a function of the energy mode.  *)
(*                                                                         *)
(* Arithmetic.  The kernel computes in `real'.  The model computes in      *)
(* exact integers on a half-unit grid:                                     *)
(*   - a coordinate is stored as twice its value, so dx is stored as 2*dx  *)
(*     and rsq, rcut2 as 4*rsq, 4*rcut2;                                   *)
(*   - rinv, rinvsq, rinvsix, Vvdw6, Vvdw12, qq are stored as they are;    *)
(*   - fcoul is stored as 4*fcoul, a force component as 8*fx;              *)
(*   - a VdW energy is stored as 12*V, a Coulomb energy as 32*V.           *)
(* With these units every operation of the loop is exact, except the       *)
(* reciprocal square root, which is exact for the grid distances 1/2 and 1 *)
(* and truncated to the unit otherwise (finite working precision).         *)
(***************************************************************************)
EXTENDS Integers, Sequences, FiniteSets, TLC

(***************************************************************************)
(* Bounds of the model                                                     *)
(***************************************************************************)
\* particles per cluster (4 in the plain-C 4x4 kernel)
ClusterSize == 2
\* cluster-pair entries processed in one pass
MaxEntries == 2
\* number of energy groups
NEnergrp == 2

UNROLLI == ClusterSize
UNROLLJ == ClusterSize

NClusters == 1 + 1
NAtoms == NClusters * UNROLLJ

\* the three energy-handling builds of the kernel
Modes == {"none", "tot", "grp"}

VARIABLES cfg, x, pc, nci, ci, ci_sh, xi, egp_sh_i, cjind,
          f, fi, Vvdw, Vc, Vvdw_ci, Vc_ci, npair, badrinv, etouch,
          last, ev

vars == <<cfg, x, pc, nci, ci, ci_sh, xi, egp_sh_i, cjind,
          f, fi, Vvdw, Vc, Vvdw_ci, Vc_ci, npair, badrinv, etouch,
          last, ev>>

\* the state of a pass split over parallel workers: the buffer discipline,
\* each worker's position in its sub-range, the value it has read from the
\* shared force buffer, its private buffers, and the reduced output
VARIABLES disc, wpos, wphase, wreg, wb, gf, gVvdw, gVc, ideal, raced, reduced

parvars == <<disc, wpos, wphase, wreg, wb, gf, gVvdw, gVc, ideal, raced, reduced>>

\* the state of a comparison expression (sm_compare.cpp): the method
\* parameters, the method data, the arrays behind the pointers, the position
\* in the method's life cycle, the exception thrown, the evaluation group and
\* the output group, and whether a read had no defined value
VARIABLES param, data, mem, cpc, err, g, out, ub

cmpvars == <<param, data, mem, cpc, err, g, out, ub>>

(***************************************************************************)
(* Helpers                                                                 *)
(***************************************************************************)
RECURSIVE Pow2(_)
Pow2(n) == IF n <= 0 THEN 1 ELSE 2 * Pow2(n - 1)

\* a C array with the elements of the tuple s (index 0 first)
Arr(s) == [k \in 0..(Len(s) - 1) |-> s[k + 1]]

RECURSIVE SumTo(_, _)
SumTo(a, n) == IF n < 0 THEN 0 ELSE a[n] + SumTo(a, n - 1)

\* the sum of the elements of an array with domain 0..n-1
SumArr(a) == SumTo(a, Cardinality(DOMAIN a) - 1)

(***************************************************************************)
(* Particle buffer and interaction constants (read-only inputs)            *)
(***************************************************************************)
\* candidate coordinate sets, one point per particle, in half units
Layouts ==
  << << <<0,0,0>>, <<1,0,0>>, <<2,0,0>>, <<0,0,0>>, <<1,0,0>>, <<3,0,0>>,
        <<2,0,0>>, <<0,0,0>>, <<1,0,0>> >>,
     << <<0,0,0>>, <<1,1,0>>, <<1,2,0>>, <<0,1,1>>, <<2,0,1>>, <<1,0,2>>,
        <<0,2,1>>, <<2,2,0>>, <<2,1,2>> >> >>

\* the coordinate array x[a*3+d] of layout l
XOf(l) == [k \in 0..(NAtoms * 3 - 1) |-> Layouts[l][((k \div 3) % 9) + 1][(k % 3) + 1]]

\* periodic shift vectors; index 0 is the central (zero) shift
shiftvec == Arr(<< <<0,0,0>>, <<1,0,0>> >>)

\* partial charges
q == [a \in 0..(NAtoms - 1) |-> IF a % 3 = 0 THEN 1 ELSE IF a % 3 = 1 THEN -1 ELSE 2]

\* LJ type index per particle; type 2 is the type without VdW parameters
type == [a \in 0..(NAtoms - 1) |-> Arr(<<0, 2, 1, 1>>)[a % 4]]

\* 2 * (number of LJ types)
ntype2 == 6

\* LJ parameter table: nbfp[ti*ntype2 + tj*2] = c6, nbfp[ti*ntype2 + tj*2 + 1] = c12
nbfp == Arr(<<1, 2,  2, 1,  0, 0,
              2, 1,  1, 1,  0, 0,
              0, 0,  0, 0,  0, 0>>)

\* energy group of a particle
EnergrpOf(a) == a % NEnergrp

RECURSIVE PackEgp(_, _)
PackEgp(c, j) ==
  IF j >= UNROLLJ THEN 0
  ELSE EnergrpOf(c * UNROLLJ + j) * Pow2(8 * j) + PackEgp(c, j + 1)

\* nbat->energrp[c]: the groups of the particles of cluster c, 8 bits each
energrp == [c \in 0..(NClusters - 1) |-> PackEgp(c, 0)]

\* squared cutoff (stored as 4*rcut2)
rcut2 == 5

\* reaction-field constants
k_rf == 1
k_rf2 == 2
c_rf == 3

\* Ewald correction table (F, D, V, 0 per bin) and its scale; halfsp = 0.5/tabq_scale
tabq_scale == 1
tab_coul_FDV0 == Arr(<<3, -1, 5, 0,  2, -1, 3, 0,  1, 0, 2, 0,  1, 0, 1, 0>>)

(***************************************************************************)
(* The inner loop, one definition per step of the loop body.               *)
(*   c : the build flags of the kernel                                     *)
(*   e : the cluster-pair entry and the i-cluster data of the outer loop   *)
(*       (ci, ci_sh, cj, excl, xi, egp_sh_i, egp_cj)                       *)
(*   b : the buffers the loop updates                                      *)
(***************************************************************************)
\* mutant: exclusion forces only in the force-only build
EXCL_FORCES_ForceOnly(c) == c.CHECK_EXCLS /\ c.CALC_COULOMB /\ ~c.CALC_ENERGIES

\* #if defined CHECK_EXCLS && defined CALC_COULOMB  #define EXCL_FORCES
EXCL_FORCES(c) == c.CHECK_EXCLS /\ c.CALC_COULOMB

\* mutant: the mask read transposed
ExclBit_Transposed(i, j) == j * UNROLLI + i

\* the position in the exclusion mask of the pair (i, j)
ExclBit(i, j) == i * UNROLLI + j

\* mutant: the mask shifted by one bit too many
Interact_ShiftOffByOne(c, excl, i, j) ==
  IF c.CHECK_EXCLS THEN (excl \div Pow2(ExclBit(i, j) + 1)) % 2 ELSE 1

\* interact = ((l_cj[cjind].excl >> (i*UNROLLI + j)) & 1), or #define interact 1
Interact(c, excl, i, j) ==
  IF c.CHECK_EXCLS THEN (excl \div Pow2(ExclBit(i, j))) % 2 ELSE 1

\* mutant: only the diagonal test, in every build with CHECK_EXCLS
SkipExcl_DiagonalOnly(c, e, i, j) ==
  /\ c.CHECK_EXCLS
  /\ e.cj = e.ci_sh /\ j <= i

\* mutant: the diagonal test with i and j exchanged
SkipExcl_Swapped(c, e, i, j) ==
  /\ c.CHECK_EXCLS
  /\ IF ~EXCL_FORCES(c)
     THEN Interact(c, e.excl, i, j) = 0
     ELSE e.cj = e.ci_sh /\ i <= j

\* the first `continue': excluded pairs, or the (sub-)diagonal
SkipExcl(c, e, i, j) ==
  /\ c.CHECK_EXCLS
  /\ IF ~EXCL_FORCES(c)
     THEN Interact(c, e.excl, i, j) = 0
     ELSE e.cj = e.ci_sh /\ j <= i

\* dx, dy, dz (d = 0, 1, 2)
Dx(e, i, aj, d) == e.xi[i * 3 + d] - x[aj * 3 + d]

\* rsq = dx*dx + dy*dy + dz*dz
Rsq(e, i, aj) ==
  Dx(e, i, aj, 0) * Dx(e, i, aj, 0) + Dx(e, i, aj, 1) * Dx(e, i, aj, 1)
    + Dx(e, i, aj, 2) * Dx(e, i, aj, 2)

\* mutant: the cutoff test with > for >=
OutsideCutoff_Strict(rsq) == rsq > rcut2

\* if (rsq >= rcut2) continue
OutsideCutoff(rsq) == rsq >= rcut2

\* mutant: the near-zero guard compiled into every build
NearZero_Always(c, rsq) == rsq <= 0

\* mutant: the near-zero guard compares with 0 instead of 1e-12
NearZero_Negative(c, rsq) == EXCL_FORCES(c) /\ rsq < 0

\* #ifdef EXCL_FORCES  if (rsq < 1e-12) continue
\* (rsq is a multiple of the squared grid step, so rsq < 1e-12 iff rsq <= 0)
NearZero(c, rsq) == EXCL_FORCES(c) /\ rsq <= 0

\* what the reciprocal square root returns for rsq = 0: no finite number is
\* right; the largest value of the working precision stands for it
RinvOverflow == 3

\* rinv = 1/sqrt(rsq), truncated to the unit (rsq is stored as 4*rsq)
gmx_invsqrt(rsq) ==
  IF rsq <= 0 THEN RinvOverflow
  ELSE CHOOSE r \in 0..2 : r * r * rsq <= 4 /\ (r + 1) * (r + 1) * rsq > 4

\* mutant: the half-LJ test off by one
HasLJ_OffByOne(c, i) == ~c.HALF_LJ \/ i <= UNROLLI \div 2

\* #ifdef HALF_LJ  if (i < UNROLLI/2)
HasLJ(c, i) == ~c.HALF_LJ \/ i < UNROLLI \div 2

\* mutant: rinvsix without the interact factor
Rinvsix_NoInteract(interact, rinvsq) == rinvsq * rinvsq * rinvsq

\* rinvsix = interact*rinvsq*rinvsq*rinvsq
Rinvsix(interact, rinvsq) == interact * rinvsq * rinvsq * rinvsq

\* Vvdw6 = nbfp[type_i_off+type[aj]*2]*rinvsix, 0 outside the LJ block
Vvdw6Of(c, e, i, aj, interact, rinvsq) ==
  IF HasLJ(c, i)
  THEN nbfp[type[e.ci * UNROLLI + i] * ntype2 + type[aj] * 2] * Rinvsix(interact, rinvsq)
  ELSE 0

\* Vvdw12 = nbfp[type_i_off+type[aj]*2+1]*rinvsix*rinvsix, 0 outside the LJ block
Vvdw12Of(c, e, i, aj, interact, rinvsq) ==
  IF HasLJ(c, i)
  THEN nbfp[type[e.ci * UNROLLI + i] * ntype2 + type[aj] * 2 + 1]
         * Rinvsix(interact, rinvsq) * Rinvsix(interact, rinvsq)
  ELSE 0

\* mutant: the j group taken from byte i of egp_cj
EgpSlot_ShiftI(e, i, j) == e.egp_sh_i[i] + ((e.egp_cj \div Pow2(8 * i)) % 256)

\* the energy-group slot egp_sh_i[i] + ((egp_cj >> (8*j)) & 255)
EgpSlot(e, i, j) == e.egp_sh_i[i] + ((e.egp_cj \div Pow2(8 * j)) % 256)

\* mutant: the VdW energy accumulated outside #ifdef CALC_ENERGIES
AddVvdw_Always(c, e, b, i, j, v6, v12) ==
  IF ~HasLJ(c, i) THEN b
  ELSE IF c.ENERGY_GROUPS
  THEN [b EXCEPT !.Vvdw[EgpSlot(e, i, j)] = @ + (v12 - 2 * v6),
                 !.etouch = @ + 1]
  ELSE [b EXCEPT !.Vvdw_ci = @ + (v12 - 2 * v6), !.etouch = @ + 1]

\* Vvdw[...] += Vvdw12/12 - Vvdw6/6   or   Vvdw_ci += Vvdw12/12 - Vvdw6/6
\* (stored as 12*V: Vvdw12 - 2*Vvdw6)
AddVvdw(c, e, b, i, j, v6, v12) ==
  IF ~(HasLJ(c, i) /\ c.CALC_ENERGIES) THEN b
  ELSE IF c.ENERGY_GROUPS
  THEN [b EXCEPT !.Vvdw[EgpSlot(e, i, j)] = @ + (v12 - 2 * v6),
                 !.etouch = @ + 1]
  ELSE [b EXCEPT !.Vvdw_ci = @ + (v12 - 2 * v6), !.etouch = @ + 1]

\* rs = rsq*rinv*tabq_scale in quarters: ri = (int)rs, frac = rs - ri
Rs4(rsq, rinv) == rsq * rinv * tabq_scale
Ri(rsq, rinv) == Rs4(rsq, rinv) \div 4
Frac4(rsq, rinv) == Rs4(rsq, rinv) % 4

\* fexcl = tab_coul_FDV0[ri*4] + frac*tab_coul_FDV0[ri*4+1]   (stored as 4*fexcl)
Fexcl4(rsq, rinv) ==
  4 * tab_coul_FDV0[Ri(rsq, rinv) * 4]
    + Frac4(rsq, rinv) * tab_coul_FDV0[Ri(rsq, rinv) * 4 + 1]

\* mutant: the reaction-field scalar multiplied by rinv, as the table one is
Fcoul4_TimesRinv(c, qq, interact, rsq, rinv) ==
  IF ~c.CALC_COULOMB THEN 0
  ELSE IF c.CALC_COUL_RF
  THEN 4 * qq * (interact * rinv * rinv * rinv - k_rf2) * rinv
  ELSE (4 * interact * rinv * rinv - Fexcl4(rsq, rinv)) * (qq * rinv)

\* fcoul (stored as 4*fcoul), 0 when Coulomb is not compiled in
Fcoul4(c, qq, interact, rsq, rinv) ==
  IF ~c.CALC_COULOMB THEN 0
  ELSE IF c.CALC_COUL_RF
  THEN 4 * qq * (interact * rinv * rinv * rinv - k_rf2)
  ELSE (4 * interact * rinv * rinv - Fexcl4(rsq, rinv)) * (qq * rinv)

\* vcoul (stored as 32*vcoul)
Vcoul32(c, qq, interact, rsq, rinv) ==
  IF c.CALC_COUL_RF
  THEN qq * (32 * interact * rinv + 8 * k_rf * rsq - 32 * c_rf)
  ELSE qq * (32 * interact * rinv
               - (32 * tab_coul_FDV0[Ri(rsq, rinv) * 4 + 2]
                    - Frac4(rsq, rinv)
                        * (4 * tab_coul_FDV0[Ri(rsq, rinv) * 4] + Fexcl4(rsq, rinv))))

\* Vc[...] += vcoul   or   Vc_ci += vcoul
AddVc(c, e, b, i, j, vcoul) ==
  IF ~(c.CALC_COULOMB /\ c.CALC_ENERGIES) THEN b
  ELSE IF c.ENERGY_GROUPS
  THEN [b EXCEPT !.Vc[EgpSlot(e, i, j)] = @ + vcoul, !.etouch = @ + 1]
  ELSE [b EXCEPT !.Vc_ci = @ + vcoul, !.etouch = @ + 1]

\* the scalar that multiplies dx, dy, dz (stored as 4 times it)
Fscal4(c, i, v6, v12, rinvsq, fcoul4) ==
  IF c.CALC_COULOMB
  THEN IF HasLJ(c, i) THEN 4 * (v12 - v6) * rinvsq + fcoul4 ELSE fcoul4
  ELSE 4 * (v12 - v6) * rinvsq

\* mutant: the i-force stored instead of accumulated
IncrFi_Assign(fi0, i, fx, fy, fz) ==
  [fi0 EXCEPT ![i * 3 + 0] = fx, ![i * 3 + 1] = fy, ![i * 3 + 2] = fz]

\* fi[i*3+d] += f
IncrFi(fi0, i, fx, fy, fz) ==
  [fi0 EXCEPT ![i * 3 + 0] = @ + fx, ![i * 3 + 1] = @ + fy, ![i * 3 + 2] = @ + fz]

\* mutant: the z component added instead of subtracted
DecrF_AddZ(f0, aj, fx, fy, fz) ==
  [f0 EXCEPT ![aj * 3 + 0] = @ - fx, ![aj * 3 + 1] = @ - fy, ![aj * 3 + 2] = @ + fz]

\* mutant: the j-force stored instead of subtracted in place
DecrF_Assign(f0, aj, fx, fy, fz) ==
  [f0 EXCEPT ![aj * 3 + 0] = 0 - fx, ![aj * 3 + 1] = 0 - fy, ![aj * 3 + 2] = 0 - fz]

\* f[aj*3+d] -= f
DecrF(f0, aj, fx, fy, fz) ==
  [f0 EXCEPT ![aj * 3 + 0] = @ - fx, ![aj * 3 + 1] = @ - fy, ![aj * 3 + 2] = @ - fz]

\* the body of the j loop once the `continue's are passed (npair++ to f -= fx)
PairBody(c, e, b, i, j) ==
  LET aj       == e.cj * UNROLLJ + j
      interact == Interact(c, e.excl, i, j)
      rsq      == Rsq(e, i, aj)
      rinv     == gmx_invsqrt(rsq)
      rinvsq   == rinv * rinv
      v6       == Vvdw6Of(c, e, i, aj, interact, rinvsq)
      v12      == Vvdw12Of(c, e, i, aj, interact, rinvsq)
      qq       == q[e.ci * UNROLLI + i] * q[aj]
      fcoul4   == Fcoul4(c, qq, interact, rsq, rinv)
      fs       == Fscal4(c, i, v6, v12, rinvsq, fcoul4)
      fx       == fs * Dx(e, i, aj, 0)
      fy       == fs * Dx(e, i, aj, 1)
      fz       == fs * Dx(e, i, aj, 2)
      b1       == [b EXCEPT !.npair = IF c.COUNT_PAIRS THEN @ + 1 ELSE @,
                            !.badrinv = @ \/ rsq <= 0]
      b2       == AddVvdw(c, e, b1, i, j, v6, v12)
      b3       == AddVc(c, e, b2, i, j, Vcoul32(c, qq, interact, rsq, rinv))
  IN  [b3 EXCEPT !.fi = IncrFi(@, i, fx, fy, fz), !.f = DecrF(@, aj, fx, fy, fz)]

\* one iteration of the j loop
KernelPair(c, e, b, i, j) ==
  IF SkipExcl(c, e, i, j) THEN b
  ELSE IF OutsideCutoff(Rsq(e, i, e.cj * UNROLLJ + j)) THEN b
  ELSE IF NearZero(c, Rsq(e, i, e.cj * UNROLLJ + j)) THEN b
  ELSE PairBody(c, e, b, i, j)

\* the difference between the buffers before and after the iteration (i, j):
\* an observation of the loop, not part of it
NoEvent ==
  [dfi |-> <<0, 0, 0>>, df |-> <<0, 0, 0>>, dvdw |-> 0, dvc |-> 0, slots |-> {},
   dn |-> 0, dtouch |-> 0, rinv0 |-> FALSE, frame |-> TRUE]

PairEvent(pre, post, i, aj) ==
  IF post = pre THEN NoEvent
  ELSE
  [dfi    |-> <<post.fi[i * 3] - pre.fi[i * 3], post.fi[i * 3 + 1] - pre.fi[i * 3 + 1],
                post.fi[i * 3 + 2] - pre.fi[i * 3 + 2]>>,
   df     |-> <<post.f[aj * 3] - pre.f[aj * 3], post.f[aj * 3 + 1] - pre.f[aj * 3 + 1],
                post.f[aj * 3 + 2] - pre.f[aj * 3 + 2]>>,
   dvdw   |-> (SumArr(post.Vvdw) + post.Vvdw_ci) - (SumArr(pre.Vvdw) + pre.Vvdw_ci),
   dvc    |-> (SumArr(post.Vc) + post.Vc_ci) - (SumArr(pre.Vc) + pre.Vc_ci),
   slots  |-> {k \in DOMAIN pre.Vvdw : post.Vvdw[k] # pre.Vvdw[k]}
                \cup {k \in DOMAIN pre.Vc : post.Vc[k] # pre.Vc[k]},
   dn     |-> post.npair - pre.npair,
   dtouch |-> post.etouch - pre.etouch,
   rinv0  |-> post.badrinv /\ ~pre.badrinv,
   frame  |-> /\ [post.fi EXCEPT ![i * 3] = 0, ![i * 3 + 1] = 0, ![i * 3 + 2] = 0]
                   = [pre.fi EXCEPT ![i * 3] = 0, ![i * 3 + 1] = 0, ![i * 3 + 2] = 0]
              /\ [post.f EXCEPT ![aj * 3] = 0, ![aj * 3 + 1] = 0, ![aj * 3 + 2] = 0]
                   = [pre.f EXCEPT ![aj * 3] = 0, ![aj * 3 + 1] = 0, ![aj * 3 + 2] = 0]]

\* mutant: a `continue' leaves the loops
RECURSIVE LoopFrom_Break(_, _, _, _, _)
LoopFrom_Break(c, e, b, tr, n) ==
  IF n >= UNROLLI * UNROLLJ THEN [b |-> b, ev |-> tr]
  ELSE LET b2 == KernelPair(c, e, b, n \div UNROLLJ, n % UNROLLJ)
       IN  IF b2 = b THEN [b |-> b, ev |-> tr]
           ELSE LoopFrom_Break(c, e, b2,
                    Append(tr, PairEvent(b, b2, n \div UNROLLJ,
                                         e.cj * UNROLLJ + (n % UNROLLJ))),
                    n + 1)

\* for (i...) for (j...): the iterations n, n+1, ... in the order n = i*UNROLLJ + j;
\* yields the buffers after the last one and the events of all of them
RECURSIVE LoopFrom(_, _, _, _, _)
LoopFrom(c, e, b, tr, n) ==
  IF n >= UNROLLI * UNROLLJ THEN [b |-> b, ev |-> tr]
  ELSE LET b2 == KernelPair(c, e, b, n \div UNROLLJ, n % UNROLLJ)
       IN  LoopFrom(c, e, b2,
                    Append(tr, PairEvent(b, b2, n \div UNROLLJ,
                                         e.cj * UNROLLJ + (n % UNROLLJ))),
                    n + 1)

\* the whole block for the entry l_cj[cjind]
InnerLoopBlock(c, e, b) ==
  LoopFrom(c, [e EXCEPT !.egp_cj = energrp[e.cj]], b, <<>>, 0)

(***************************************************************************)
(* The state machine: one pass over a cluster-pair list.                   *)
(***************************************************************************)
Zeros(n) == [k \in 0..(n - 1) |-> 0]

\* the length of the energy buffers handed to the kernel in mode m
NSlots(m) == IF m = "none" THEN 0 ELSE IF m = "tot" THEN 1 ELSE NEnergrp * NEnergrp

\* the build flags of the kernel of energy mode m
Cfg(m) ==
  [CHECK_EXCLS |-> cfg.CHECK_EXCLS, CALC_COULOMB |-> cfg.CALC_COULOMB,
   CALC_COUL_RF |-> cfg.CALC_COUL_RF, HALF_LJ |-> cfg.HALF_LJ,
   COUNT_PAIRS |-> TRUE,
   CALC_ENERGIES |-> m # "none", ENERGY_GROUPS |-> m = "grp"]

\* the buffers of the kernel of energy mode m
Buf(m) ==
  [f |-> f[m], fi |-> fi[m], Vvdw |-> Vvdw[m], Vc |-> Vc[m],
   Vvdw_ci |-> Vvdw_ci[m], Vc_ci |-> Vc_ci[m], npair |-> npair[m],
   badrinv |-> badrinv[m], etouch |-> etouch[m]]

\* the entry (cj, excl) seen from the current i-cluster
Entry(cj, excl) ==
  [ci |-> ci, ci_sh |-> ci_sh, cj |-> cj, excl |-> excl, xi |-> xi,
   egp_sh_i |-> egp_sh_i, egp_cj |-> 0]

RECURSIVE MaskOf(_)
MaskOf(S) ==
  IF S = {} THEN 0
  ELSE LET p == CHOOSE p \in S : TRUE
       IN  Pow2(p[1] * UNROLLI + p[2]) + MaskOf(S \ {p})

Pairs == (0..(UNROLLI - 1)) \X (0..(UNROLLJ - 1))

\* the exclusion masks of the entries of the list: all pairs, the strict upper
\* triangle, and the diagonal with the lower triangle.  The kernel
\* without CHECK_EXCLS is the one built for entries whose mask is all ones.
ExclSet ==
  IF cfg.CHECK_EXCLS
  THEN {MaskOf(Pairs), MaskOf({p \in Pairs : p[1] < p[2]}),
        MaskOf({p \in Pairs : p[2] <= p[1]})}
  ELSE {MaskOf(Pairs)}

Configs ==
  {c \in [CHECK_EXCLS : BOOLEAN, CALC_COULOMB : BOOLEAN, CALC_COUL_RF : BOOLEAN,
          HALF_LJ : BOOLEAN] :
     c.CALC_COUL_RF => c.CALC_COULOMB}

\* no comparison expression exists
CmpIdle ==
  /\ param = <<>> /\ data = <<>> /\ mem = <<>> /\ cpc = "idle" /\ err = "none"
  /\ g = <<>> /\ out = <<>> /\ ub = FALSE

\* no parallel pass is running
ParIdle ==
  /\ disc = "none"
  /\ wpos = <<>> /\ wphase = <<>> /\ wreg = <<>> /\ wb = <<>>
  /\ gf = <<>> /\ gVvdw = <<>> /\ gVc = <<>> /\ ideal = <<>>
  /\ raced = FALSE /\ reduced = FALSE

Init ==
  /\ cfg \in Configs
  /\ x \in {XOf(l) : l \in 1..Len(Layouts)}
  /\ pc = "outer"
  /\ nci = 0
  /\ ci = 0
  /\ ci_sh = 0
  /\ xi = Zeros(UNROLLI * 3)
  /\ egp_sh_i = Zeros(UNROLLI)
  /\ cjind = 0
  /\ f = [m \in Modes |-> Zeros(NAtoms * 3)]
  /\ fi = [m \in Modes |-> Zeros(UNROLLI * 3)]
  /\ Vvdw = [m \in Modes |-> Zeros(NSlots(m))]
  /\ Vc = [m \in Modes |-> Zeros(NSlots(m))]
  /\ Vvdw_ci = [m \in Modes |-> 0]
  /\ Vc_ci = [m \in Modes |-> 0]
  /\ npair = [m \in Modes |-> 0]
  /\ badrinv = [m \in Modes |-> FALSE]
  /\ etouch = [m \in Modes |-> 0]
  /\ last = [valid |-> FALSE, cj |-> 0, excl |-> 0]
  /\ ev = [m \in Modes |-> <<>>]
  /\ ParIdle
  /\ CmpIdle

\* the coordinates of i-cluster c shifted by shift vector ish
ShiftedXi(c, ish) ==
  [k \in 0..(UNROLLI * 3 - 1) |->
     x[(c * UNROLLI + (k \div 3)) * 3 + (k % 3)] + shiftvec[ish][(k % 3) + 1]]

\* the energy-group row offsets of the particles of i-cluster c
EgpShI(c) ==
  [i \in 0..(UNROLLI - 1) |-> ((energrp[c] \div Pow2(8 * i)) % 256) * NEnergrp]

\* the force buffer f0 after the i-cluster accumulator fi0 of cluster c is added
AddFi(f0, fi0, c) ==
  [k \in DOMAIN f0 |->
     IF k \div 3 \in (c * UNROLLI)..(c * UNROLLI + UNROLLI - 1)
     THEN f0[k] + fi0[(k \div 3 - c * UNROLLI) * 3 + (k % 3)]
     ELSE f0[k]]

\* the i-cluster entries of the list, in order: <<ci, shift index>>
CiList == << <<0, 0>>, <<1, 1>>, <<1, 0>> >>

\* the outer loop starts the next i-cluster entry: it loads the shifted
\* coordinates and the energy-group offsets and clears the i-cluster accumulators
BeginCluster ==
  /\ pc = "outer"
  /\ nci < Len(CiList)
  /\ cjind < MaxEntries
  /\ pc' = "inner"
  /\ nci' = nci + 1
  /\ LET c   == CiList[nci + 1][1]
         ish == CiList[nci + 1][2]
     IN  /\ ci' = c
         /\ ci_sh' = IF ish = 0 THEN c ELSE -1
         /\ xi' = ShiftedXi(c, ish)
         /\ egp_sh_i' = EgpShI(c)
  /\ fi' = [m \in Modes |-> Zeros(UNROLLI * 3)]
  /\ Vvdw_ci' = [m \in Modes |-> 0]
  /\ Vc_ci' = [m \in Modes |-> 0]
  /\ last' = [valid |-> FALSE, cj |-> 0, excl |-> 0]
  /\ ev' = [m \in Modes |-> <<>>]
  /\ UNCHANGED <<cfg, x, cjind, f, Vvdw, Vc, npair, badrinv, etouch, parvars, cmpvars>>

\* the inner loop block for the next entry of the list, in each energy mode
InnerLoop(cj, excl) ==
  /\ pc = "inner"
  /\ cjind < MaxEntries
  /\ \E r \in {[m \in Modes |-> InnerLoopBlock(Cfg(m), Entry(cj, excl), Buf(m))]} :
       /\ f' = [m \in Modes |-> r[m].b.f]
       /\ fi' = [m \in Modes |-> r[m].b.fi]
       /\ Vvdw' = [m \in Modes |-> r[m].b.Vvdw]
       /\ Vc' = [m \in Modes |-> r[m].b.Vc]
       /\ Vvdw_ci' = [m \in Modes |-> r[m].b.Vvdw_ci]
       /\ Vc_ci' = [m \in Modes |-> r[m].b.Vc_ci]
       /\ npair' = [m \in Modes |-> r[m].b.npair]
       /\ badrinv' = [m \in Modes |-> r[m].b.badrinv]
       /\ etouch' = [m \in Modes |-> r[m].b.etouch]
       /\ ev' = [m \in Modes |-> r[m].ev]
  /\ last' = [valid |-> TRUE, cj |-> cj, excl |-> excl]
  /\ cjind' = cjind + 1
  /\ UNCHANGED <<cfg, x, pc, nci, ci, ci_sh, xi, egp_sh_i, parvars, cmpvars>>

\* the outer loop ends the i-cluster: the i-cluster accumulators are added to
\* the force buffer and, without energy groups, to the two energy totals
EndCluster ==
  /\ pc = "inner"
  /\ pc' = "outer"
  /\ f' = [m \in Modes |-> AddFi(f[m], fi[m], ci)]
  /\ Vvdw' = [Vvdw EXCEPT !["tot"][0] = @ + Vvdw_ci["tot"]]
  /\ Vc' = [Vc EXCEPT !["tot"][0] = @ + Vc_ci["tot"]]
  /\ last' = [valid |-> FALSE, cj |-> 0, excl |-> 0]
  /\ ev' = [m \in Modes |-> <<>>]
  /\ UNCHANGED <<cfg, x, nci, ci, ci_sh, xi, egp_sh_i, cjind, fi, Vvdw_ci, Vc_ci,
                 npair, badrinv, etouch, parvars, cmpvars>>

Next ==
  \/ BeginCluster
  \/ \E cj \in 0..(NClusters - 1), excl \in ExclSet : InnerLoop(cj, excl)
  \/ EndCluster

Spec == Init /\ [][Next]_vars

(***************************************************************************)
(* Properties.  They read the events of the last block (ev), recomputing   *)
(* the distance and the mask bit of each pair from the inputs.             *)
(***************************************************************************)
\* the pair (i, j) of the n-th event of a block
PairI(n) == (n - 1) \div UNROLLJ
PairJ(n) == (n - 1) % UNROLLJ
PairAj(n) == last.cj * UNROLLJ + PairJ(n)
PairAi(n) == ci * UNROLLI + PairI(n)
EvIdx == 1..(UNROLLI * UNROLLJ)

\* (twice) the displacement and (four times) the squared distance of that pair
PairD(n, d) == xi[PairI(n) * 3 + d] - x[PairAj(n) * 3 + d]
PairRsq(n) == PairD(n, 0) * PairD(n, 0) + PairD(n, 1) * PairD(n, 1) + PairD(n, 2) * PairD(n, 2)

\* the mask bit of that pair: bit i*UNROLLI + j of the entry's mask
PairBit(n) == (last.excl \div Pow2(PairI(n) * UNROLLI + PairJ(n))) % 2

\* the pair is inside the cutoff and its two particles do not coincide
InRange(n) == PairRsq(n) > 0 /\ PairRsq(n) < rcut2

Neg(t) == <<0 - t[1], 0 - t[2], 0 - t[3]>>

\* the sum of component d over a force array
RECURSIVE SumComp(_, _, _)
SumComp(a, d, n) == IF n < 0 THEN 0 ELSE a[n * 3 + d] + SumComp(a, d, n - 1)

\* C1: every force added to the i-cluster accumulator is subtracted from the
\* j-particle's entry of the force buffer, and nothing else changes, so the
\* component-wise sum over fi and f stays zero during the pass.
C1_ForceSymmetry ==
  \A m \in Modes :
    /\ \A n \in DOMAIN ev[m] : ev[m][n].df = Neg(ev[m][n].dfi) /\ ev[m][n].frame
    /\ \A d \in 0..2 :
         SumComp(f[m], d, NAtoms - 1)
           + (IF pc = "inner" THEN SumComp(fi[m], d, UNROLLI - 1) ELSE 0) = 0

C1_Witness ==
  /\ cjind >= 2
  /\ \E n \in DOMAIN ev["none"] : ev["none"][n].dfi # <<0, 0, 0>>
  /\ \E k \in DOMAIN f["none"] : f["none"][k] # 0 /\ f["none"][k] # 0 - fi["none"][k % 3]

\* C2: a pair with rsq >= rcut2 changes nothing: no force, no energy, no count.
C2_CutoffExact ==
  last.valid =>
    \A m \in Modes : \A n \in EvIdx : PairRsq(n) >= rcut2 => ev[m][n] = NoEvent

C2_Witness ==
  /\ last.valid
  /\ \E n \in EvIdx : PairRsq(n) = rcut2 /\ PairBit(n) = 1
  /\ \E n \in EvIdx : ev["grp"][n].dn = 1

C4_EnergyOnlyInteracting ==
  (last.valid /\ cfg.CHECK_EXCLS) =>
    \A m \in {"tot", "grp"} : \A n \in EvIdx :
      (PairBit(n) = 0 \/ PairRsq(n) >= rcut2)
        => ev[m][n].dvdw = 0 /\ ev[m][n].dvc = 0

\* C5: the force-only kernel never touches an energy accumulator.
C5_ForceOnlyNoEnergy ==
  /\ Vvdw["none"] = Zeros(0)
  /\ Vc["none"] = Zeros(0)
  /\ Vvdw_ci["none"] = 0
  /\ Vc_ci["none"] = 0
  /\ etouch["none"] = 0

C5_Witness ==
  /\ cjind >= 2
  /\ npair["none"] >= 2
  /\ \E k \in DOMAIN f["none"] : f["none"][k] # 0
  /\ Vc["tot"][0] # 0

\* C6: with exclusion forces a pair with rsq < 1e-12 is skipped entirely and
\* the reciprocal square root is never taken of such a distance.
C6_NearZeroSkipped ==
  (cfg.CHECK_EXCLS /\ cfg.CALC_COULOMB) =>
    \A m \in Modes :
      /\ ~badrinv[m]
      /\ last.valid => \A n \in EvIdx : PairRsq(n) <= 0 => ev[m][n] = NoEvent

C6_Witness ==
  /\ cfg.CHECK_EXCLS /\ cfg.CALC_COULOMB /\ last.valid
  /\ \E n \in EvIdx : PairRsq(n) = 0 /\ ~(last.cj = ci_sh /\ PairJ(n) <= PairI(n))
  /\ \E n \in EvIdx : ev["none"][n].dn = 1

\* C7: the mask bits i*UNROLLI + j of the pairs of a cluster pair are pairwise
\* distinct and lie below UNROLLI*UNROLLJ, and the kernel decides the
\* interaction of the pair (i, j) from that bit.
C7_MaskBits ==
  /\ \A p1 \in Pairs, p2 \in Pairs :
       p1 # p2 => ExclBit(p1[1], p1[2]) # ExclBit(p2[1], p2[2])
  /\ \A p \in Pairs : ExclBit(p[1], p[2]) \in 0..(UNROLLI * UNROLLJ - 1)
  /\ (last.valid /\ cfg.CHECK_EXCLS /\ ~cfg.CALC_COULOMB) =>
       \A m \in Modes : \A n \in EvIdx :
         /\ PairBit(n) = 0 => ev[m][n] = NoEvent
         /\ (PairBit(n) = 1 /\ InRange(n)) => ev[m][n].dn = 1

C7_Witness ==
  /\ last.valid /\ cfg.CHECK_EXCLS /\ ~cfg.CALC_COULOMB
  /\ \E n \in EvIdx : PairBit(n) = 0 /\ InRange(n)
  /\ \E n \in EvIdx : PairBit(n) = 1 /\ ev["none"][n].dfi # <<0, 0, 0>>

\* a particle whose type has no VdW parameters
NoVdW(a) == \A k \in 0..(ntype2 - 1) : nbfp[type[a] * ntype2 + k] = 0

\* the force on i of the n-th pair if only the Coulomb term acts (zero when the
\* pair is skipped or Coulomb is not compiled in)
CoulombOnly(m, n) ==
  IF ev[m][n].dn = 0 THEN <<0, 0, 0>>
  ELSE LET fc == Fcoul4(Cfg(m), q[PairAi(n)] * q[PairAj(n)],
                        Interact(Cfg(m), last.excl, PairI(n), PairJ(n)),
                        PairRsq(n), gmx_invsqrt(PairRsq(n)))
       IN  <<fc * PairD(n, 0), fc * PairD(n, 1), fc * PairD(n, 2)>>

\* C8: under HALF_LJ a pair whose i-particle is in the second half of the
\* i-cluster adds no VdW energy and its force is the Coulomb term only; a
\* particle without LJ parameters never receives a VdW contribution.
C8_HalfLJ ==
  last.valid =>
    \A m \in Modes : \A n \in EvIdx :
      ((cfg.HALF_LJ /\ PairI(n) >= UNROLLI \div 2)
         \/ NoVdW(PairAi(n)) \/ NoVdW(PairAj(n)))
        => /\ ev[m][n].dvdw = 0
           /\ ev[m][n].dfi = CoulombOnly(m, n)
           /\ ev[m][n].df = Neg(CoulombOnly(m, n))

C8_Witness ==
  /\ last.valid /\ cfg.HALF_LJ /\ cfg.CALC_COULOMB
  /\ \E n \in EvIdx :
       /\ PairI(n) >= UNROLLI \div 2
       /\ ~NoVdW(PairAi(n)) /\ ~NoVdW(PairAj(n))
       /\ ev["tot"][n].dn = 1 /\ ev["tot"][n].dfi # <<0, 0, 0>>
       /\ Interact(Cfg("tot"), last.excl, PairI(n), PairJ(n)) = 1
  /\ \E n \in EvIdx : PairI(n) < UNROLLI \div 2 /\ ev["tot"][n].dvdw # 0

C10_GroupSumEqualsTotal ==
  /\ SumArr(Vvdw["grp"]) = Vvdw["tot"][0] + (IF pc = "inner" THEN Vvdw_ci["tot"] ELSE 0)
  /\ SumArr(Vc["grp"]) = Vc["tot"][0] + (IF pc = "inner" THEN Vc_ci["tot"] ELSE 0)
  /\ Vvdw_ci["grp"] = 0 /\ Vc_ci["grp"] = 0
  /\ last.valid =>
       \A n \in EvIdx :
         /\ ev["grp"][n].dvdw = ev["tot"][n].dvdw
         /\ ev["grp"][n].dvc = ev["tot"][n].dvc
         /\ ev["grp"][n].slots
              \subseteq {EnergrpOf(PairAi(n)) * NEnergrp + EnergrpOf(PairAj(n))}

C10_Witness ==
  /\ pc = "outer" /\ cjind >= 2
  /\ Vvdw["tot"][0] # 0 /\ Vc["tot"][0] # 0
  /\ \E k1 \in DOMAIN Vc["grp"], k2 \in DOMAIN Vc["grp"] :
       k1 # k2 /\ Vc["grp"][k1] # 0 /\ Vc["grp"][k2] # 0
  /\ \E k \in DOMAIN Vvdw["grp"] : Vvdw["grp"][k] # 0 /\ Vvdw["grp"][k] # Vvdw["tot"][0]

(***************************************************************************)
(* A pass split over parallel workers.  Each worker runs the inner loop    *)
(* over its own sub-range of the list.  With the "private" discipline it   *)
(* writes forces and energies to its own buffers, which are summed after   *)
(* all workers have finished; with the "shared" discipline the j-force     *)
(* update f[aj] -= fx goes to one global buffer, as the read and the write *)
(* of the unsynchronised C statement.                                      *)
(***************************************************************************)
\* number of workers
NWorkers == 2
Workers == 0..(NWorkers - 1)

\* the sub-range of worker w: one i-cluster entry <<ci, shift index>> with
\* one j entry; every worker's j entry is the last cluster
WorkCi(w) == w % NClusters
WorkShift(w) == IF w = 0 THEN 0 ELSE 1
WorkCj(w) == NClusters - 1

WEntry(w) ==
  [ci |-> WorkCi(w), ci_sh |-> IF WorkShift(w) = 0 THEN WorkCi(w) ELSE -1,
   cj |-> WorkCj(w), excl |-> MaskOf(Pairs),
   xi |-> ShiftedXi(WorkCi(w), WorkShift(w)), egp_sh_i |-> EgpShI(WorkCi(w)),
   egp_cj |-> energrp[WorkCj(w)]]

\* the energy-group build of the kernel is the one the workers run
ParCfg == Cfg("grp")

ZeroBuf ==
  [f |-> Zeros(NAtoms * 3), fi |-> Zeros(UNROLLI * 3),
   Vvdw |-> Zeros(NSlots("grp")), Vc |-> Zeros(NSlots("grp")),
   Vvdw_ci |-> 0, Vc_ci |-> 0, npair |-> 0, badrinv |-> FALSE, etouch |-> 0]

\* the three components of particle a in a force array, and their replacement
Atom3(a, n) == <<a[n * 3], a[n * 3 + 1], a[n * 3 + 2]>>
PutAtom3(a, n, t) == [a EXCEPT ![n * 3] = t[1], ![n * 3 + 1] = t[2], ![n * 3 + 2] = t[3]]

\* the pair (i, j) passes every `continue' of the loop body
PairEvaluated(c, e, i, j) ==
  /\ ~SkipExcl(c, e, i, j)
  /\ ~OutsideCutoff(Rsq(e, i, e.cj * UNROLLJ + j))
  /\ ~NearZero(c, Rsq(e, i, e.cj * UNROLLJ + j))

\* the kernel variables of the single pass are not used by the parallel pass
KernelIdle ==
  /\ pc = "idle" /\ nci = 0 /\ ci = 0 /\ ci_sh = 0 /\ xi = <<>> /\ egp_sh_i = <<>>
  /\ cjind = 0 /\ f = <<>> /\ fi = <<>> /\ Vvdw = <<>> /\ Vc = <<>>
  /\ Vvdw_ci = <<>> /\ Vc_ci = <<>> /\ npair = <<>> /\ badrinv = <<>>
  /\ etouch = <<>> /\ last = [valid |-> FALSE, cj |-> 0, excl |-> 0] /\ ev = <<>>

kernelstate == <<pc, nci, ci, ci_sh, xi, egp_sh_i, cjind, f, fi, Vvdw, Vc,
                 Vvdw_ci, Vc_ci, npair, badrinv, etouch, last, ev>>

\* the pass starts with zeroed buffers; the workers of the set W have a
\* sub-range to process, the others have none
ParStart(W) ==
  /\ x \in {XOf(l) : l \in 1..Len(Layouts)}
  /\ KernelIdle
  /\ CmpIdle
  /\ wpos = [w \in Workers |-> 0]
  /\ wphase = [w \in Workers |-> IF w \in W THEN "pair" ELSE "done"]
  /\ wreg = [w \in Workers |-> <<0, 0, 0>>]
  /\ wb = [w \in Workers |-> ZeroBuf]
  /\ gf = Zeros(NAtoms * 3)
  /\ gVvdw = Zeros(NSlots("grp"))
  /\ gVc = Zeros(NSlots("grp"))
  /\ ideal = Zeros(NAtoms * 3)
  /\ raced = FALSE
  /\ reduced = FALSE

\* partition-then-reduce: every worker has a sub-range and private buffers
ParInit ==
  /\ cfg \in Configs
  /\ disc = "private"
  /\ ParStart(Workers)

\* the two workers that write the shared buffer
Racers == {w \in Workers : w < 2}

\* the builds the shared buffer is run with: RF Coulomb with exclusions, and
\* the plain LJ kernel
RaceConfigs ==
  {c \in Configs : \/ c.CHECK_EXCLS /\ c.CALC_COUL_RF /\ ~c.HALF_LJ
                   \/ ~c.CHECK_EXCLS /\ ~c.CALC_COULOMB /\ ~c.HALF_LJ}

\* no partitioning: two workers, on different i-clusters with the same
\* j-cluster, write one global force buffer
RaceInit ==
  /\ cfg \in RaceConfigs
  /\ disc = "shared"
  /\ ParStart(Racers)

\* private buffers: one iteration of the j loop on the worker's own buffers
WPairPrivate(w) ==
  /\ disc = "private"
  /\ wphase[w] = "pair"
  /\ wpos[w] < UNROLLI * UNROLLJ
  /\ wb' = [wb EXCEPT ![w] = KernelPair(ParCfg, WEntry(w), @,
                                        wpos[w] \div UNROLLJ, wpos[w] % UNROLLJ)]
  /\ wpos' = [wpos EXCEPT ![w] = @ + 1]
  /\ UNCHANGED <<cfg, x, kernelstate, cmpvars, disc, wphase, wreg, gf, gVvdw, gVc, ideal,
                 raced, reduced>>

\* shared buffer: the iteration up to the read of f[aj] in f[aj] -= fx; an
\* iteration that ends in a `continue' reads nothing
WRead(w) ==
  /\ disc = "shared"
  /\ wphase[w] = "pair"
  /\ wpos[w] < UNROLLI * UNROLLJ
  /\ IF PairEvaluated(ParCfg, WEntry(w), wpos[w] \div UNROLLJ, wpos[w] % UNROLLJ)
     THEN /\ wreg' = [wreg EXCEPT ![w] =
                        Atom3(gf, WorkCj(w) * UNROLLJ + (wpos[w] % UNROLLJ))]
          /\ wphase' = [wphase EXCEPT ![w] = "write"]
          /\ UNCHANGED wpos
     ELSE /\ wpos' = [wpos EXCEPT ![w] = @ + 1]
          /\ UNCHANGED <<wreg, wphase>>
  /\ UNCHANGED <<cfg, x, kernelstate, cmpvars, disc, wb, gf, gVvdw, gVc, ideal, raced, reduced>>

\* shared buffer: the write of f[aj] in f[aj] -= fx, from the value read
\* before; fi and the energies are the worker's own.  `ideal' is the buffer
\* an atomic update would give (minus the force added to fi), `raced' records
\* that the entry changed between the read and the write
WWrite(w) ==
  /\ disc = "shared"
  /\ wphase[w] = "write"
  /\ LET i    == wpos[w] \div UNROLLJ
         aj   == WorkCj(w) * UNROLLJ + (wpos[w] % UNROLLJ)
         pre  == [wb[w] EXCEPT !.f = PutAtom3(gf, aj, wreg[w])]
         post == KernelPair(ParCfg, WEntry(w), pre, i, wpos[w] % UNROLLJ)
     IN  /\ gf' = PutAtom3(gf, aj, Atom3(post.f, aj))
         /\ ideal' = PutAtom3(ideal, aj,
                        <<ideal[aj * 3] - (post.fi[i * 3] - pre.fi[i * 3]),
                          ideal[aj * 3 + 1] - (post.fi[i * 3 + 1] - pre.fi[i * 3 + 1]),
                          ideal[aj * 3 + 2] - (post.fi[i * 3 + 2] - pre.fi[i * 3 + 2])>>)
         /\ raced' = (raced \/ Atom3(gf, aj) # wreg[w])
         /\ wb' = [wb EXCEPT ![w] = [post EXCEPT !.f = wb[w].f]]
  /\ wpos' = [wpos EXCEPT ![w] = @ + 1]
  /\ wphase' = [wphase EXCEPT ![w] = "pair"]
  /\ UNCHANGED <<cfg, x, kernelstate, cmpvars, disc, wreg, gVvdw, gVc, reduced>>

\* the end of the worker's i-cluster: fi is added to the force buffer
WEnd(w) ==
  /\ wphase[w] = "pair"
  /\ wpos[w] = UNROLLI * UNROLLJ
  /\ wphase' = [wphase EXCEPT ![w] = "done"]
  /\ IF disc = "private"
     THEN /\ wb' = [wb EXCEPT ![w].f = AddFi(@, wb[w].fi, WorkCi(w))]
          /\ UNCHANGED <<gf, ideal>>
     ELSE /\ gf' = AddFi(gf, wb[w].fi, WorkCi(w))
          /\ ideal' = AddFi(ideal, wb[w].fi, WorkCi(w))
          /\ UNCHANGED wb
  /\ UNCHANGED <<cfg, x, kernelstate, cmpvars, disc, wpos, wreg, gVvdw, gVc, raced, reduced>>

\* the element-wise sum of field fld of the private buffers of workers 0..w
RECURSIVE ReduceField(_, _)
ReduceField(fld, w) ==
  IF w < 0 THEN [k \in DOMAIN wb[0][fld] |-> 0]
  ELSE [k \in DOMAIN wb[0][fld] |-> wb[w][fld][k] + ReduceField(fld, w - 1)[k]]

\* after the barrier: the private buffers are summed into the output
Reduce ==
  /\ disc = "private"
  /\ ~reduced
  /\ \A w \in Workers : wphase[w] = "done"
  /\ reduced' = TRUE
  /\ gf' = ReduceField("f", NWorkers - 1)
  /\ gVvdw' = ReduceField("Vvdw", NWorkers - 1)
  /\ gVc' = ReduceField("Vc", NWorkers - 1)
  /\ UNCHANGED <<cfg, x, kernelstate, cmpvars, disc, wpos, wphase, wreg, wb, ideal, raced>>

ParNext ==
  \/ \E w \in Workers : WPairPrivate(w)
  \/ \E w \in Workers : WEnd(w)
  \/ Reduce

SpecPar == ParInit /\ [][ParNext]_<<vars, parvars>>

RaceNext ==
  \/ \E w \in Workers : WRead(w)
  \/ \E w \in Workers : WWrite(w)
  \/ \E w \in Workers : WEnd(w)

SpecRace == RaceInit /\ [][RaceNext]_<<vars, parvars>>

\* the single-threaded pass over the whole list: the sub-ranges in order on
\* one set of buffers
RECURSIVE SeqFrom(_, _)
SeqFrom(b, w) ==
  IF w >= NWorkers THEN b
  ELSE LET r == InnerLoopBlock(ParCfg, WEntry(w), [b EXCEPT !.fi = Zeros(UNROLLI * 3)]).b
       IN  SeqFrom([r EXCEPT !.f = AddFi(@, r.fi, WorkCi(w))], w + 1)

SeqPass == SeqFrom(ZeroBuf, 0)

\* C11: with private buffers reduced after all workers have finished, every
\* interleaving ends with the forces and the energy totals of the
\* single-threaded pass.
C11_PartitionReduceEqualsSequential ==
  (disc = "private" /\ reduced) =>
    /\ gf = SeqPass.f
    /\ gVvdw = SeqPass.Vvdw
    /\ gVc = SeqPass.Vc

\* two workers have written the same particle's force, and energies were added
C11_Witness ==
  /\ disc = "private" /\ reduced
  /\ \E k \in DOMAIN gf : \E v, w \in Workers :
       v # w /\ wb[v].f[k] # 0 /\ wb[w].f[k] # 0 /\ gf[k] # 0
  /\ \E k \in DOMAIN gVc : gVc[k] # 0 \/ gVvdw[k] # 0
  /\ \E v, w \in Workers : \E k \in DOMAIN gVc :
       v # w /\ (wb[v].Vc[k] # 0 \/ wb[v].Vvdw[k] # 0)
             /\ (wb[w].Vc[k] # 0 \/ wb[w].Vvdw[k] # 0)

\* C12: fi of a worker is the fi of its i-cluster evaluated alone, whatever
\* the other workers do; on the shared buffer a j-force differs from the
\* atomic result only after an entry changed between a read and a write.
C12_FiOwnedJForceRaces ==
  /\ \A w \in Racers :
       wphase[w] = "done" =>
         wb[w].fi = InnerLoopBlock(ParCfg, WEntry(w), ZeroBuf).b.fi
  /\ (disc = "shared" /\ gf # ideal) => raced

\* a force update of one worker is lost on the shared buffer
C12_Witness ==
  /\ disc = "shared"
  /\ \A w \in Workers : wphase[w] = "done"
  /\ gf # ideal
  /\ raced
  /\ \A w \in Racers : wb[w].fi # Zeros(UNROLLI * 3)


(***************************************************************************)
(* Termination of a pass.  The kernel is a blocking compute loop: the      *)
(* outer loop always takes its next step.  Whether the list holds another  *)
(* entry for the current i-cluster is the list's choice, not a step the    *)
(* kernel owes.                                                            *)
(***************************************************************************)
FairSpec == Spec /\ WF_vars(BeginCluster) /\ WF_vars(EndCluster)

\* no entry and no i-cluster is left to process
PassOver == pc = "outer" /\ (nci >= Len(CiList) \/ cjind >= MaxEntries)

\* the n-th iteration of the last block passed every `continue'
EvEvaluated(m, n) == PairEvaluated(Cfg(m), Entry(last.cj, last.excl), PairI(n), PairJ(n))

\* C13: a block makes exactly one iteration per (i, j), in which the pair is
\* either skipped by a `continue' or evaluated once, each block consumes one
\* entry of the list, and the pass comes to an end.
C13_LoopsTerminate ==
  /\ [](last.valid =>
          \A m \in Modes :
            /\ Len(ev[m]) = UNROLLI * UNROLLJ
            /\ \A n \in EvIdx :
                 /\ ev[m][n].frame
                 /\ ev[m][n].dn = IF EvEvaluated(m, n) THEN 1 ELSE 0)
  /\ [][cjind' \in {cjind, cjind + 1} /\ nci' \in {nci, nci + 1}]_vars
  /\ <>[]PassOver

\* the last entry of the list, with a skipped pair followed by an evaluated one
C13_Witness ==
  /\ last.valid /\ cjind = MaxEntries
  /\ \E n1, n2 \in EvIdx :
       /\ n1 < n2
       /\ ~EvEvaluated("tot", n1) /\ ev["tot"][n1] = NoEvent
       /\ EvEvaluated("tot", n2) /\ ev["tot"][n2].dn = 1


(***************************************************************************)
(* The comparison selection method (sm_compare.cpp).                       *)
(*                                                                         *)
(* A `real' is stored as the integer RealDen times its value, so the       *)
(* model's reals are the multiples of 1/RealDen; GMX_REAL_EPS, the spacing *)
(* of the reals at 1, is 1/RealDen.  A pointer is the number of the array  *)
(* it points to, 0 for NULL; mem holds the arrays.  Flag words are sets of *)
(* flag names: (flags & F) is F \in flags, |= is \cup, &= ~ is \.          *)
(***************************************************************************)
\* largest evaluation group
MaxGroup == 2

RealDen == 8

\* (real)i, ceil(r), floor(r) for r >= 0
IntToReal(n) == n * RealDen
Ceil(r) == (r + RealDen - 1) \div RealDen
Floor(r) == r \div RealDen

Abs(n) == IF n < 0 THEN 0 - n ELSE n

\* gmx_within_tol(f1, f2, tol): fabs(f1 - f2) <= tol*0.5*(fabs(f1) + fabs(f2)),
\* with tol = GMX_REAL_EPS
gmx_within_tol(f1, f2) == 2 * RealDen * Abs(f1 - f2) <= Abs(f1) + Abs(f2)

\* the character str[k] of a C string; the terminator after the last one
CharAt(str, k) == IF k < Len(str) THEN str[k + 1] ELSE "NUL"

\* mutant: a lone = or ! accepted
comparison_type_OneChar(str) ==
  IF CharAt(str, 0) = "<" THEN (IF CharAt(str, 1) = "=" THEN "CMP_LEQ" ELSE "CMP_LESS")
  ELSE IF CharAt(str, 0) = ">" THEN (IF CharAt(str, 1) = "=" THEN "CMP_GEQ" ELSE "CMP_GTR")
  ELSE IF CharAt(str, 0) = "=" THEN "CMP_EQUAL"
  ELSE IF CharAt(str, 0) = "!" THEN "CMP_NEQ"
  ELSE "CMP_INVALID"

\* e_comparison_t comparison_type(char *str)
comparison_type(str) ==
  IF CharAt(str, 0) = "<" THEN (IF CharAt(str, 1) = "=" THEN "CMP_LEQ" ELSE "CMP_LESS")
  ELSE IF CharAt(str, 0) = ">" THEN (IF CharAt(str, 1) = "=" THEN "CMP_GEQ" ELSE "CMP_GTR")
  ELSE IF CharAt(str, 0) = "=" THEN (IF CharAt(str, 1) = "=" THEN "CMP_EQUAL" ELSE "CMP_INVALID")
  ELSE IF CharAt(str, 0) = "!" THEN (IF CharAt(str, 1) = "=" THEN "CMP_NEQ" ELSE "CMP_INVALID")
  ELSE "CMP_INVALID"

\* mutant: the operator kept
reverse_comparison_type_Same(t) == t

\* mutant: the operator negated instead of reversed
reverse_comparison_type_Negate(t) ==
  IF t = "CMP_LESS" THEN "CMP_GEQ"
  ELSE IF t = "CMP_LEQ" THEN "CMP_GTR"
  ELSE IF t = "CMP_GTR" THEN "CMP_LEQ"
  ELSE IF t = "CMP_GEQ" THEN "CMP_LESS"
  ELSE t

\* e_comparison_t reverse_comparison_type(e_comparison_t type)
reverse_comparison_type(t) ==
  IF t = "CMP_LESS" THEN "CMP_GTR"
  ELSE IF t = "CMP_LEQ" THEN "CMP_GEQ"
  ELSE IF t = "CMP_GTR" THEN "CMP_LESS"
  ELSE IF t = "CMP_GEQ" THEN "CMP_LEQ"
  ELSE t

\* array numbers: the arrays of the parameters int1, real1, int2, real2, and
\* the array allocated by a conversion
ParamArrays == 1..4
HeapArray == 4 + 1

\* snew(p, n): the array becomes live with the values v
Snew(m, p, v) == [m EXCEPT ![p] = [st |-> "heap", v |-> v, nfree |-> @.nfree]]

\* sfree(p): nothing for NULL
Sfree(m, p) ==
  IF p = 0 THEN m ELSE [m EXCEPT ![p] = [st |-> "freed", v |-> @.v, nfree |-> @.nfree + 1]]

\* what a read without a defined value yields in the model (no value of an
\* array is negative)
UB == 0 - 1

\* p[k] for a live array p with more than k elements; UB otherwise
ReadAt(m, p, k) ==
  IF p # 0 /\ m[p].st \in {"param", "heap"} /\ k < Len(m[p].v) THEN m[p].v[k + 1] ELSE UB

\* static int init_comparison_value(t_compare_value *val, gmx_ana_selparam_t param[2])
init_comparison_value(val, p0, p1) ==
  IF "SPAR_SET" \in p0.flags
  THEN [n   |-> p0.nr,
        val |-> [flags |-> (IF "SPAR_DYNAMIC" \in p0.flags THEN {"CMP_DYNAMICVAL"} ELSE {})
                             \cup (IF "SPAR_ATOMVAL" \notin p0.flags THEN {"CMP_SINGLEVAL"} ELSE {}),
                 i |-> p0.ptr, r |-> val.r]]
  ELSE IF "SPAR_SET" \in p1.flags
  THEN [n   |-> p1.nr,
        val |-> [flags |-> (IF "SPAR_DYNAMIC" \in p1.flags THEN {"CMP_DYNAMICVAL"} ELSE {})
                             \cup (IF "SPAR_ATOMVAL" \notin p1.flags THEN {"CMP_SINGLEVAL"} ELSE {})
                             \cup {"CMP_REALVAL"},
                 i |-> val.i, r |-> p1.ptr]]
  ELSE [n |-> 0, val |-> [flags |-> {}, i |-> 0, r |-> 0]]

\* static void convert_int_real(int n, t_compare_value *val)
convert_int_real(n, val, m) ==
  LET rv == [k \in 1..n |-> IF ReadAt(m, val.i, k - 1) = UB THEN UB
                            ELSE IntToReal(ReadAt(m, val.i, k - 1))]
  IN  [val |-> [flags |-> val.flags \cup {"CMP_REALVAL", "CMP_ALLOCREAL"},
                i |-> val.i, r |-> HeapArray],
       mem |-> Sfree(Snew(m, HeapArray, rv), val.r),
       err |-> "none"]

\* mutant: the rounding chosen without looking at bRight
convert_real_int_NoReverse(n, val, cmpt, bRight, m) ==
  LET iv == [k \in 1..n |-> IF ReadAt(m, val.r, k - 1) = UB THEN UB
                            ELSE IF cmpt \in {"CMP_LESS", "CMP_GEQ"}
                            THEN Ceil(ReadAt(m, val.r, k - 1))
                            ELSE Floor(ReadAt(m, val.r, k - 1))]
  IN  IF n > 0 /\ cmpt \in {"CMP_EQUAL", "CMP_NEQ"}
      THEN [val |-> val, mem |-> Sfree(Snew(m, HeapArray, <<>>), HeapArray),
            err |-> "NotImplementedError"]
      ELSE IF n > 0 /\ cmpt = "CMP_INVALID"
      THEN [val |-> val, mem |-> Sfree(Snew(m, HeapArray, <<>>), HeapArray),
            err |-> "InternalError"]
      ELSE [val |-> [flags |-> (val.flags \ {"CMP_REALVAL"}) \cup {"CMP_ALLOCINT"},
                     i |-> HeapArray, r |-> val.r],
            mem |-> Sfree(Snew(m, HeapArray, iv), val.i),
            err |-> "none"]

\* mutant: == and != rounded down instead of refused
convert_real_int_Floor(n, val, cmpt, bRight, m) ==
  LET c  == IF ~bRight THEN reverse_comparison_type(cmpt) ELSE cmpt
      iv == [k \in 1..n |-> IF ReadAt(m, val.r, k - 1) = UB THEN UB
                            ELSE IF c \in {"CMP_LESS", "CMP_GEQ"}
                            THEN Ceil(ReadAt(m, val.r, k - 1))
                            ELSE Floor(ReadAt(m, val.r, k - 1))]
  IN  [val |-> [flags |-> (val.flags \ {"CMP_REALVAL"}) \cup {"CMP_ALLOCINT"},
                i |-> HeapArray, r |-> val.r],
       mem |-> Sfree(Snew(m, HeapArray, iv), val.i),
       err |-> "none"]

\* static void convert_real_int(int n, t_compare_value *val, e_comparison_t cmpt, bool bRight)
convert_real_int(n, val, cmpt, bRight, m) ==
  LET c  == IF ~bRight THEN reverse_comparison_type(cmpt) ELSE cmpt
      iv == [k \in 1..n |-> IF ReadAt(m, val.r, k - 1) = UB THEN UB
                            ELSE IF c \in {"CMP_LESS", "CMP_GEQ"}
                            THEN Ceil(ReadAt(m, val.r, k - 1))
                            ELSE Floor(ReadAt(m, val.r, k - 1))]
  IN  IF n > 0 /\ c \in {"CMP_EQUAL", "CMP_NEQ"}
      THEN [val |-> val, mem |-> Sfree(Snew(m, HeapArray, <<>>), HeapArray),
            err |-> "NotImplementedError"]
      ELSE IF n > 0 /\ c = "CMP_INVALID"
      THEN [val |-> val, mem |-> Sfree(Snew(m, HeapArray, <<>>), HeapArray),
            err |-> "InternalError"]
      ELSE [val |-> [flags |-> (val.flags \ {"CMP_REALVAL"}) \cup {"CMP_ALLOCINT"},
                     i |-> HeapArray, r |-> val.r],
            mem |-> Sfree(Snew(m, HeapArray, iv), val.i),
            err |-> "none"]

\* mutant: the operator is never found invalid
InvalidOp_Never(cmpt) == FALSE

\* if (d->cmpt == CMP_INVALID)
InvalidOp(cmpt) == cmpt = "CMP_INVALID"

\* mutant: the static side is taken for dynamic
BothDynamic_Always(d) == TRUE

\* if (d->left.flags & d->right.flags & CMP_DYNAMICVAL)
BothDynamic(d) == "CMP_DYNAMICVAL" \in (d.left.flags \cap d.right.flags)

\* mutant: the exchange of two dynamic operands moves the flags only
ConvertValues_FlagsOnly(d, n1, n2, m) ==
  IF "CMP_REALVAL" \in d.left.flags /\ "CMP_REALVAL" \notin d.right.flags
  THEN IF BothDynamic(d)
       THEN [data |-> d, mem |-> m, err |-> "none"]
       ELSE IF "CMP_DYNAMICVAL" \notin d.right.flags
       THEN LET cv == convert_int_real(n2, d.right, m)
            IN  [data |-> [d EXCEPT !.right = cv.val], mem |-> cv.mem, err |-> cv.err]
       ELSE LET cv == convert_real_int(n1, d.left, d.cmpt, FALSE, m)
            IN  [data |-> [d EXCEPT !.left = cv.val], mem |-> cv.mem, err |-> cv.err]
  ELSE IF "CMP_REALVAL" \notin d.left.flags /\ "CMP_REALVAL" \in d.right.flags
  THEN IF BothDynamic(d)
       THEN [data |-> [d EXCEPT !.left.flags  = d.right.flags,
                                !.right.flags = d.left.flags,
                                !.cmpt  = reverse_comparison_type(d.cmpt)],
             mem |-> m, err |-> "none"]
       ELSE IF "CMP_DYNAMICVAL" \notin d.left.flags
       THEN LET cv == convert_int_real(n1, d.left, m)
            IN  [data |-> [d EXCEPT !.left = cv.val], mem |-> cv.mem, err |-> cv.err]
       ELSE LET cv == convert_real_int(n2, d.right, d.cmpt, TRUE, m)
            IN  [data |-> [d EXCEPT !.right = cv.val], mem |-> cv.mem, err |-> cv.err]
  ELSE [data |-> d, mem |-> m, err |-> "none"]

\* the conversion of init_compare: "Convert the values to the same type"
ConvertValues(d, n1, n2, m) ==
  IF "CMP_REALVAL" \in d.left.flags /\ "CMP_REALVAL" \notin d.right.flags
  THEN IF BothDynamic(d)
       THEN [data |-> d, mem |-> m, err |-> "none"]
       ELSE IF "CMP_DYNAMICVAL" \notin d.right.flags
       THEN LET cv == convert_int_real(n2, d.right, m)
            IN  [data |-> [d EXCEPT !.right = cv.val], mem |-> cv.mem, err |-> cv.err]
       ELSE LET cv == convert_real_int(n1, d.left, d.cmpt, FALSE, m)
            IN  [data |-> [d EXCEPT !.left = cv.val], mem |-> cv.mem, err |-> cv.err]
  ELSE IF "CMP_REALVAL" \notin d.left.flags /\ "CMP_REALVAL" \in d.right.flags
  THEN IF BothDynamic(d)
       THEN [data |-> [d EXCEPT !.left  = [flags |-> d.right.flags, i |-> 0, r |-> d.right.r],
                                !.right = [flags |-> d.left.flags, i |-> d.left.i, r |-> 0],
                                !.cmpt  = reverse_comparison_type(d.cmpt)],
             mem |-> m, err |-> "none"]
       ELSE IF "CMP_DYNAMICVAL" \notin d.left.flags
       THEN LET cv == convert_int_real(n1, d.left, m)
            IN  [data |-> [d EXCEPT !.left = cv.val], mem |-> cv.mem, err |-> cv.err]
       ELSE LET cv == convert_real_int(n2, d.right, d.cmpt, TRUE, m)
            IN  [data |-> [d EXCEPT !.right = cv.val], mem |-> cv.mem, err |-> cv.err]
  ELSE [data |-> d, mem |-> m, err |-> "none"]

\* static void init_compare(t_topology *top, int npar, gmx_ana_selparam_t *param, void *data)
init_compare(p, d, m) ==
  LET l  == init_comparison_value(d.left, p[0], p[1])
      r  == init_comparison_value(d.right, p[3], p[4])
      d1 == [d EXCEPT !.left = l.val, !.right = r.val]
      d2 == [d1 EXCEPT !.cmpt = comparison_type(d1.cmpop)]
  IN  IF l.n = 0 \/ r.n = 0
      THEN [data |-> d1, mem |-> m, err |-> "InternalError"]
      ELSE IF InvalidOp(d2.cmpt)
      THEN [data |-> d2, mem |-> m, err |-> "InternalError"]
      ELSE ConvertValues(d2, l.n, r.n, m)

\* mutant: >= evaluated as >
AcceptInt_Strict(cmpt, a, b) ==
  IF cmpt = "CMP_LESS" THEN a < b
  ELSE IF cmpt = "CMP_LEQ" THEN a <= b
  ELSE IF cmpt = "CMP_GTR" THEN a > b
  ELSE IF cmpt = "CMP_GEQ" THEN a > b
  ELSE IF cmpt = "CMP_EQUAL" THEN a = b
  ELSE IF cmpt = "CMP_NEQ" THEN a # b
  ELSE FALSE

\* the switch of evaluate_compare_int
AcceptInt(cmpt, a, b) ==
  IF cmpt = "CMP_LESS" THEN a < b
  ELSE IF cmpt = "CMP_LEQ" THEN a <= b
  ELSE IF cmpt = "CMP_GTR" THEN a > b
  ELSE IF cmpt = "CMP_GEQ" THEN a >= b
  ELSE IF cmpt = "CMP_EQUAL" THEN a = b
  ELSE IF cmpt = "CMP_NEQ" THEN a # b
  ELSE FALSE

\* mutant: == and != of reals compared exactly
AcceptReal_Exact(cmpt, a, b) ==
  IF cmpt = "CMP_LESS" THEN a < b
  ELSE IF cmpt = "CMP_LEQ" THEN a <= b
  ELSE IF cmpt = "CMP_GTR" THEN a > b
  ELSE IF cmpt = "CMP_GEQ" THEN a >= b
  ELSE IF cmpt = "CMP_EQUAL" THEN a = b
  ELSE IF cmpt = "CMP_NEQ" THEN a # b
  ELSE FALSE

\* the switch of evaluate_compare_real
AcceptReal(cmpt, a, b) ==
  IF cmpt = "CMP_LESS" THEN a < b
  ELSE IF cmpt = "CMP_LEQ" THEN a <= b
  ELSE IF cmpt = "CMP_GTR" THEN a > b
  ELSE IF cmpt = "CMP_GEQ" THEN a >= b
  ELSE IF cmpt = "CMP_EQUAL" THEN gmx_within_tol(a, b)
  ELSE IF cmpt = "CMP_NEQ" THEN ~gmx_within_tol(a, b)
  ELSE FALSE

\* if (!(val.flags & CMP_SINGLEVAL)) ++i1
StepIdx(val, k) == IF "CMP_SINGLEVAL" \notin val.flags THEN k + 1 ELSE k

\* the loop of evaluate_compare_int from iteration i on; the output group and
\* whether a value was read that is not there
RECURSIVE IntLoop(_, _, _, _, _, _, _)
IntLoop(d, m, gg, i, i1, i2, acc) ==
  IF i >= Len(gg) THEN [out |-> acc, ub |-> FALSE]
  ELSE LET a == ReadAt(m, d.left.i, i1)
           b == ReadAt(m, d.right.i, i2)
       IN  IF a = UB \/ b = UB THEN [out |-> acc, ub |-> TRUE]
           ELSE IntLoop(d, m, gg, i + 1, StepIdx(d.left, i1), StepIdx(d.right, i2),
                        IF AcceptInt(d.cmpt, a, b) THEN Append(acc, gg[i + 1]) ELSE acc)

\* static void evaluate_compare_int(...)
evaluate_compare_int(d, m, gg) == IntLoop(d, m, gg, 0, 0, 0, <<>>)

\* the loop of evaluate_compare_real from iteration i on
RECURSIVE RealLoop(_, _, _, _, _, _, _)
RealLoop(d, m, gg, i, i1, i2, acc) ==
  IF i >= Len(gg) THEN [out |-> acc, ub |-> FALSE]
  ELSE LET a  == ReadAt(m, d.left.r, i1)
           bi == ReadAt(m, d.right.i, i2)
           b  == IF "CMP_REALVAL" \in d.right.flags THEN ReadAt(m, d.right.r, i2)
                 ELSE IF bi = UB THEN UB ELSE IntToReal(bi)
       IN  IF a = UB \/ b = UB THEN [out |-> acc, ub |-> TRUE]
           ELSE RealLoop(d, m, gg, i + 1, StepIdx(d.left, i1), StepIdx(d.right, i2),
                         IF AcceptReal(d.cmpt, a, b) THEN Append(acc, gg[i + 1]) ELSE acc)

\* static void evaluate_compare_real(...)
evaluate_compare_real(d, m, gg) == RealLoop(d, m, gg, 0, 0, 0, <<>>)

\* if (!((d->left.flags | d->right.flags) & CMP_REALVAL))
UseIntPath(d) == "CMP_REALVAL" \notin (d.left.flags \cup d.right.flags)

\* static void evaluate_compare(...)
evaluate_compare(d, m, gg) ==
  IF UseIntPath(d) THEN evaluate_compare_int(d, m, gg) ELSE evaluate_compare_real(d, m, gg)

\* mutant: the value arrays freed without looking at the ALLOC flags
free_data_compare_NoFlags(d, m) ==
  Sfree(Sfree(Sfree(Sfree(m, d.left.i), d.left.r), d.right.i), d.right.r)

\* static void free_data_compare(void *data): the arrays after the frees
free_data_compare(d, m) ==
  LET m1 == IF "CMP_ALLOCINT" \in d.left.flags THEN Sfree(m, d.left.i) ELSE m
      m2 == IF "CMP_ALLOCREAL" \in d.left.flags THEN Sfree(m1, d.left.r) ELSE m1
      m3 == IF "CMP_ALLOCINT" \in d.right.flags THEN Sfree(m2, d.right.i) ELSE m2
  IN  IF "CMP_ALLOCREAL" \in d.right.flags THEN Sfree(m3, d.right.r) ELSE m3

(***************************************************************************)
(* The expressions the method is set up with, and its life cycle:          *)
(* init_data_compare, init_compare, evaluate_compare for any number of     *)
(* frames and groups, free_data_compare.                                   *)
(***************************************************************************)
\* the values of a dynamic operand in a frame: 2 or 3, and 2 or 2 + 1/RealDen
IntVals == {2, 3}
RealVals == {2 * RealDen, 2 * RealDen + 1}

\* the values of a static real: 2, 2 + 1/RealDen, 2.5
StaticRealVals == {2 * RealDen, 2 * RealDen + 1, 2 * RealDen + RealDen \div 2}

\* the values of a static per-atom operand
StaticInts == [k \in 1..MaxGroup |-> ((k - 1) % 3) + 1]
StaticReals ==
  [k \in 1..MaxGroup |->
     IF k % 3 = 1 THEN 2 * RealDen + RealDen \div 2
     ELSE IF k % 3 = 2 THEN 2 * RealDen ELSE 2 * RealDen + 1]

\* an operand as parsed: whether a value is given, its type, static or
\* dynamic, single or per-atom, and the values of a static one
OperandKinds ==
  {[set |-> FALSE, real |-> FALSE, dyn |-> FALSE, atom |-> FALSE, v |-> <<>>]}
    \cup {[set |-> TRUE, real |-> FALSE, dyn |-> FALSE, atom |-> FALSE, v |-> <<3>>],
          [set |-> TRUE, real |-> FALSE, dyn |-> FALSE, atom |-> TRUE, v |-> StaticInts],
          [set |-> TRUE, real |-> FALSE, dyn |-> FALSE, atom |-> TRUE, v |-> <<>>],
          [set |-> TRUE, real |-> TRUE, dyn |-> FALSE, atom |-> TRUE, v |-> StaticReals]}
    \cup {[set |-> TRUE, real |-> TRUE, dyn |-> FALSE, atom |-> FALSE, v |-> <<r>>] :
            r \in StaticRealVals}
    \cup {[set |-> TRUE, real |-> t, dyn |-> TRUE, atom |-> a, v |-> <<>>] :
            t \in BOOLEAN, a \in BOOLEAN}

\* the operator strings
OpStrings ==
  {<<"<">>, <<"<", "=">>, <<">">>, <<">", "=">>, <<"=", "=">>, <<"!", "=">>,
   <<"=">>, <<"!">>, <<"<", ">">>, <<"~", "=">>}

\* a parameter that is not given
NoParam == [flags |-> {}, nr |-> 0, ptr |-> 0]

\* the parameter of array p for the operand kind k; a dynamic per-atom
\* parameter has room for the largest group
ParamOf(k, p) ==
  [flags |-> {"SPAR_SET"} \cup (IF k.dyn THEN {"SPAR_DYNAMIC"} ELSE {})
               \cup (IF k.atom THEN {"SPAR_ATOMVAL"} ELSE {}),
   nr    |-> IF k.dyn THEN (IF k.atom THEN MaxGroup ELSE 1) ELSE Len(k.v),
   ptr   |-> p]

\* smparams_compare: int1, real1, op, int2, real2
ParamsOf(kl, op, kr) ==
  [n \in 0..4 |->
     IF n = 0 THEN (IF kl.set /\ ~kl.real THEN ParamOf(kl, 1) ELSE NoParam)
     ELSE IF n = 1 THEN (IF kl.set /\ kl.real THEN ParamOf(kl, 2) ELSE NoParam)
     ELSE IF n = 2 THEN [flags |-> {"SPAR_SET"}, nr |-> 1, s |-> op]
     ELSE IF n = 3 THEN (IF kr.set /\ ~kr.real THEN ParamOf(kr, 3) ELSE NoParam)
     ELSE (IF kr.set /\ kr.real THEN ParamOf(kr, 4) ELSE NoParam)]

\* the arrays of the parameters
MemOf(kl, kr) ==
  [p \in 1..HeapArray |->
     IF p = HeapArray THEN [st |-> "none", v |-> <<>>, nfree |-> 0]
     ELSE [st |-> "param",
           v  |-> IF p = (IF kl.real THEN 2 ELSE 1) /\ kl.set THEN kl.v
                  ELSE IF p = (IF kr.real THEN 4 ELSE 3) /\ kr.set THEN kr.v ELSE <<>>,
           nfree |-> 0]]

CmpInit ==
  /\ cfg = <<>> /\ x = <<>>
  /\ KernelIdle
  /\ ParIdle
  /\ \E kl \in OperandKinds, kr \in OperandKinds, op \in OpStrings :
       /\ param = ParamsOf(kl, op, kr)
       /\ mem = MemOf(kl, kr)
  /\ data = <<>>
  /\ cpc = "new"
  /\ err = "none"
  /\ g = <<>>
  /\ out = <<>>
  /\ ub = FALSE

\* init_data_compare: snew(data, 1) zeroes the structure; the operator string
\* is stored through param[2].val.u.s = &data->cmpop
InitData ==
  /\ cpc = "new"
  /\ data' = [cmpop |-> param[2].s, cmpt |-> "CMP_INVALID",
              left  |-> [flags |-> {}, i |-> 0, r |-> 0],
              right |-> [flags |-> {}, i |-> 0, r |-> 0]]
  /\ cpc' = "data"
  /\ UNCHANGED <<cfg, x, kernelstate, parvars, param, mem, err, g, out, ub>>

\* init_compare: it returns normally or throws
InitCompare ==
  /\ cpc = "data"
  /\ \E res \in {init_compare(param, data, mem)} :
       /\ data' = res.data
       /\ mem' = res.mem
       /\ err' = res.err
       /\ cpc' = IF res.err = "none" THEN "ready" ELSE "failed"
  /\ UNCHANGED <<cfg, x, kernelstate, parvars, param, g, out, ub>>

\* the index groups handed to the method: the first n of the atoms 1, 3, 5...
Groups == {[k \in 1..n |-> 2 * k - 1] : n \in 0..MaxGroup}

\* all subsequences of a sequence
RECURSIVE SubSeqs(_)
SubSeqs(sq) ==
  IF sq = <<>> THEN {<<>>}
  ELSE LET rest == SubSeqs(Tail(sq))
       IN  rest \cup {<<Head(sq)>> \o t : t \in rest}

\* the values a parameter array can hold for the group gg: those of this
\* frame for a dynamic parameter, the stored ones for a static one
FrameValues(p, gg) ==
  IF p = 0 \/ ~\E n \in {0, 1, 3, 4} : param[n].ptr = p /\ "SPAR_DYNAMIC" \in param[n].flags
  THEN {IF p = 0 THEN <<>> ELSE mem[p].v}
  ELSE LET n  == CHOOSE n \in {0, 1, 3, 4} : param[n].ptr = p
           ln == IF "SPAR_ATOMVAL" \in param[n].flags THEN Len(gg) ELSE 1
       IN  [1..ln -> IF n \in {0, 3} THEN IntVals ELSE RealVals]

\* the array of the left (side = 0) or right (side = 3) operand as parsed
OperandArray(side) ==
  IF "SPAR_SET" \in param[side].flags THEN param[side].ptr
  ELSE IF "SPAR_SET" \in param[side + 1].flags THEN param[side + 1].ptr ELSE 0

\* one frame: the dynamic parameters are evaluated for the group, then
\* evaluate_compare is called; a read without a defined value leaves any
\* output
Evaluate ==
  /\ cpc \in {"ready", "evaluated"}
  /\ \E gg \in Groups :
       \E lv \in FrameValues(OperandArray(0), gg), rv \in FrameValues(OperandArray(3), gg) :
         LET m1  == [p \in DOMAIN mem |->
                       IF p = OperandArray(0) THEN [mem[p] EXCEPT !.v = lv]
                       ELSE IF p = OperandArray(3) THEN [mem[p] EXCEPT !.v = rv]
                       ELSE mem[p]]
             res == evaluate_compare(data, m1, gg)
         IN  /\ mem' = m1
             /\ g' = gg
             /\ ub' = (ub \/ res.ub)
             /\ out' \in (IF res.ub THEN SubSeqs(gg) ELSE {res.out})
  /\ cpc' = "evaluated"
  /\ UNCHANGED <<cfg, x, kernelstate, parvars, param, data, err>>

\* free_data_compare
FreeData ==
  /\ cpc \in {"ready", "evaluated", "failed"}
  /\ mem' = free_data_compare(data, mem)
  /\ cpc' = "freed"
  /\ UNCHANGED <<cfg, x, kernelstate, parvars, param, data, err, g, out, ub>>

CmpNext == InitData \/ InitCompare \/ Evaluate \/ FreeData

SpecCmp == CmpInit /\ [][CmpNext]_<<vars, parvars, cmpvars>>

(***************************************************************************)
(* Properties of the comparison method.  They read the expression as it    *)
(* was parsed (param and the parameter arrays, which init_compare does not *)
(* change) and compare it with what the method stored and produced.        *)
(***************************************************************************)
\* the parameter that gives the left (side = 0) or right (side = 3) operand
OrigParam(side) == IF "SPAR_SET" \in param[side].flags THEN param[side] ELSE param[side + 1]
OrigSet(side) == "SPAR_SET" \in OrigParam(side).flags
OrigReal(side) == "SPAR_SET" \notin param[side].flags /\ "SPAR_SET" \in param[side + 1].flags
OrigDyn(side) == "SPAR_DYNAMIC" \in OrigParam(side).flags
OrigAtom(side) == "SPAR_ATOMVAL" \in OrigParam(side).flags

\* the value of that operand at position k of the group (k = 1 first), as a
\* real: a single value is the same at every position
OrigVal(side, k) ==
  LET v == mem[OrigParam(side).ptr].v[IF OrigAtom(side) THEN k ELSE 1]
  IN  IF OrigReal(side) THEN v ELSE IntToReal(v)

\* the six operators
SixOps == {<<"<">>, <<"<", "=">>, <<">">>, <<">", "=">>, <<"=", "=">>, <<"!", "=">>}
EqOps == {<<"=", "=">>, <<"!", "=">>}

\* the expression as written holds at position k; == between reals is
\* equality within the tolerance
OrigHolds(k) ==
  LET a  == OrigVal(0, k)
      b  == OrigVal(3, k)
      eq == IF OrigReal(0) \/ OrigReal(3) THEN gmx_within_tol(a, b) ELSE a = b
  IN  IF data.cmpop = <<"<">> THEN a < b
      ELSE IF data.cmpop = <<"<", "=">> THEN a <= b
      ELSE IF data.cmpop = <<">">> THEN a > b
      ELSE IF data.cmpop = <<">", "=">> THEN a >= b
      ELSE IF data.cmpop = <<"=", "=">> THEN eq
      ELSE ~eq

\* the elements of the group at the positions from k on where the expression holds
RECURSIVE ExpectedFrom(_)
ExpectedFrom(k) ==
  IF k > Len(g) THEN <<>>
  ELSE IF OrigHolds(k) THEN <<g[k]>> \o ExpectedFrom(k + 1) ELSE ExpectedFrom(k + 1)

Range(sq) == {sq[k] : k \in 1..Len(sq)}

\* init_compare has returned normally
InitDone == cpc \in {"ready", "evaluated"}

\* C14: evaluate_compare outputs exactly the elements g->index[k], in input
\* order, at which left[k] op right[k] holds, a single value standing for
\* every position; the output size is the number of such positions.
C14_OutputIsFilteredGroup ==
  (cpc = "evaluated" /\ data.cmpop \in SixOps) =>
    /\ out = ExpectedFrom(1)
    /\ Len(out) = Cardinality({k \in 1..Len(g) : OrigHolds(k)})

\* a per-atom integer compared >= with a single static value, some positions
\* accepted and some not
C14_Witness ==
  /\ cpc = "evaluated" /\ data.cmpop = <<">", "=">>
  /\ OrigAtom(0) /\ OrigDyn(0) /\ ~OrigReal(0)
  /\ ~OrigAtom(3) /\ ~OrigDyn(3)
  /\ Len(g) = MaxGroup
  /\ out # <<>> /\ out # g
  /\ \E k \in 1..Len(g) : OrigVal(0, k) = OrigVal(3, k) /\ g[k] \in Range(out)

\* == or != between a dynamic integer and a static real, in either order
EqDynIntStaticReal ==
  /\ data.cmpop \in EqOps
  /\ OrigSet(0) /\ OrigSet(3)
  /\ \/ OrigDyn(0) /\ ~OrigReal(0) /\ ~OrigDyn(3) /\ OrigReal(3)
     \/ OrigDyn(3) /\ ~OrigReal(3) /\ ~OrigDyn(0) /\ OrigReal(0)

\* C15: for == and != between a dynamic integer and a static real
\* init_compare throws NotImplementedError, installs no converted value, and
\* the expression is never evaluated.
C15_EqualityIntRealUnsupported ==
  (cpc \in {"ready", "evaluated", "failed", "freed"} /\ EqDynIntStaticReal) =>
    /\ err = "NotImplementedError"
    /\ cpc \in {"failed", "freed"}
    /\ data.left.i # HeapArray /\ data.right.i # HeapArray
    /\ "CMP_ALLOCINT" \notin (data.left.flags \cup data.right.flags)
    /\ ("CMP_REALVAL" \in data.left.flags) = OrigReal(0)
    /\ ("CMP_REALVAL" \in data.right.flags) = OrigReal(3)
    /\ mem[HeapArray].st # "heap"
    /\ g = <<>> /\ out = <<>>

\* the static real on the left, != : init_compare has thrown
C15_Witness ==
  /\ cpc = "failed" /\ err = "NotImplementedError"
  /\ data.cmpop = <<"!", "=">>
  /\ OrigReal(0) /\ ~OrigDyn(0) /\ OrigDyn(3) /\ ~OrigReal(3)

\* C16: after a normal return of init_compare the stored operator is one of
\* the six comparisons; an error is raised only by init_compare, and no
\* evaluation raises one.
C16_ErrorsOnlyAtSetup ==
  /\ [](InitDone => data.cmpt \in {"CMP_LESS", "CMP_LEQ", "CMP_GTR", "CMP_GEQ",
                                   "CMP_EQUAL", "CMP_NEQ"} /\ err = "none")
  /\ [](err # "none" => cpc \in {"failed", "freed"})
  /\ [][err' # err => cpc = "data" /\ cpc' = "failed"]_cmpvars
  /\ [][cpc' = "evaluated" => err' = "none" /\ cpc \in {"ready", "evaluated"}]_cmpvars

\* a second evaluation, on a full group, after a first one
C16_Witness ==
  /\ cpc = "evaluated" /\ err = "none"
  /\ Len(g) = MaxGroup /\ out # <<>>
  /\ OrigDyn(0) /\ OrigDyn(3)

\* the operand structure of side 0 (left) or 3 (right)
DataSide(side) == IF side = 0 THEN data.left ELSE data.right

\* C17: init_compare converts only a static operand: a static integer to
\* real when the other side is real, a static real to integer when the other
\* side is a dynamic integer, nothing when both are dynamic or the types are
\* the same; with a static operand both sides end with the same type.
C17_StaticSideConverted ==
  InitDone =>
    LET is == IF OrigReal(0) THEN 3 ELSE 0
        rs == IF OrigReal(0) THEN 0 ELSE 3
        mixed == OrigReal(0) # OrigReal(3)
        allocs == {"CMP_ALLOCINT", "CMP_ALLOCREAL"}
    IN  /\ (~mixed \/ (OrigDyn(0) /\ OrigDyn(3))) =>
             /\ mem[HeapArray].st = "none"
             /\ (data.left.flags \cup data.right.flags) \cap allocs = {}
        /\ (mixed /\ ~OrigDyn(is)) =>
             /\ DataSide(is).flags \cap ({"CMP_REALVAL"} \cup allocs)
                  = {"CMP_REALVAL", "CMP_ALLOCREAL"}
             /\ DataSide(is).r = HeapArray
             /\ mem[HeapArray].st = "heap"
             /\ mem[HeapArray].v = [k \in 1..OrigParam(is).nr |->
                                      IntToReal(mem[OrigParam(is).ptr].v[k])]
             /\ DataSide(rs).flags \cap allocs = {}
             /\ DataSide(rs).r = OrigParam(rs).ptr
        /\ (mixed /\ OrigDyn(is) /\ ~OrigDyn(rs)) =>
             /\ DataSide(rs).flags \cap ({"CMP_REALVAL"} \cup allocs) = {"CMP_ALLOCINT"}
             /\ DataSide(rs).i = HeapArray
             /\ mem[HeapArray].st = "heap"
             /\ DataSide(is).flags \cap allocs = {}
             /\ DataSide(is).i = OrigParam(is).ptr
        /\ (~OrigDyn(0) \/ ~OrigDyn(3)) =>
             ("CMP_REALVAL" \in data.left.flags) = ("CMP_REALVAL" \in data.right.flags)

\* a static real on the right converted to integer for a dynamic integer
C17_Witness ==
  /\ cpc = "ready"
  /\ OrigDyn(0) /\ ~OrigReal(0) /\ ~OrigDyn(3) /\ OrigReal(3)
  /\ "CMP_ALLOCINT" \in data.right.flags
  /\ mem[HeapArray].st = "heap" /\ Len(mem[HeapArray].v) > 0

\* C18: the real path is taken exactly when an operand is real after
\* init_compare; there == accepts the positions whose values are equal within
\* the tolerance and != the others; the integer path compares exactly.
C18_RealPathTolerance ==
  (cpc = "evaluated") =>
    LET anyreal == "CMP_REALVAL" \in (data.left.flags \cup data.right.flags)
        eq == evaluate_compare([data EXCEPT !.cmpt = "CMP_EQUAL"], mem, g).out
        ne == evaluate_compare([data EXCEPT !.cmpt = "CMP_NEQ"], mem, g).out
    IN  /\ out = IF anyreal THEN evaluate_compare_real(data, mem, g).out
                 ELSE evaluate_compare_int(data, mem, g).out
        /\ data.cmpt \in {"CMP_EQUAL", "CMP_NEQ"} =>
             /\ out = IF data.cmpt = "CMP_EQUAL" THEN eq ELSE ne
             /\ Range(eq) \cap Range(ne) = {}
             /\ Range(eq) \cup Range(ne) = Range(g)
             /\ \A k \in 1..Len(g) :
                  g[k] \in Range(eq) <=>
                    IF anyreal THEN gmx_within_tol(OrigVal(0, k), OrigVal(3, k))
                    ELSE OrigVal(0, k) = OrigVal(3, k)

\* two reals that differ, accepted by == within the tolerance
C18_Witness ==
  /\ cpc = "evaluated" /\ data.cmpt = "CMP_EQUAL"
  /\ OrigReal(0) /\ OrigReal(3)
  /\ \E k \in 1..Len(g) : OrigVal(0, k) # OrigVal(3, k) /\ g[k] \in Range(out)
  /\ \E k \in 1..Len(g) : g[k] \notin Range(out)

(***************************************************************************)
(* Further properties of the inner loop (specification Spec).              *)
(***************************************************************************)
SqNorm(t) == t[1] * t[1] + t[2] * t[2] + t[3] * t[3]

\* the model's rinv of the n-th pair is exactly 1/d (rinv*rinv*rsq = 1)
ExactRinv(n) == gmx_invsqrt(PairRsq(n)) * gmx_invsqrt(PairRsq(n)) * PairRsq(n) = 4

\* the n-th pair is a non-excluded pair inside the cutoff, evaluated with
\* reaction-field electrostatics, with the charges 1 and -1 and no VdW term
RFPair(m, n) ==
  /\ cfg.CALC_COUL_RF
  /\ ev[m][n].dn = 1
  /\ Interact(Cfg(m), last.excl, PairI(n), PairJ(n)) = 1
  /\ {q[PairAi(n)], q[PairAj(n)]} = {1, 0 - 1}
  /\ (cfg.HALF_LJ /\ PairI(n) >= UNROLLI \div 2) \/ NoVdW(PairAi(n)) \/ NoVdW(PairAj(n))
  /\ ExactRinv(n)

\* qq*(rinv*rinvsq - k_rf2) of the n-th pair
RFScalar(n) ==
  q[PairAi(n)] * q[PairAj(n)]
    * (gmx_invsqrt(PairRsq(n)) * gmx_invsqrt(PairRsq(n)) * gmx_invsqrt(PairRsq(n)) - k_rf2)

\* C19 as stated: the magnitude of the force on each of the two particles is
\* qq*(rinv*rinvsq - k_rf2)*rinv  (forces are stored as 8 times their value,
\* and the magnitudes are compared by their squares).
C19_RFMagnitudeTimesRinv ==
  last.valid =>
    \A m \in Modes : \A n \in EvIdx :
      RFPair(m, n) =>
        /\ SqNorm(ev[m][n].dfi)
             = (8 * RFScalar(n) * gmx_invsqrt(PairRsq(n))) * (8 * RFScalar(n) * gmx_invsqrt(PairRsq(n)))
        /\ SqNorm(ev[m][n].df) = SqNorm(ev[m][n].dfi)

\* C19 amended: the force on particle i is qq*(rinv*rinvsq - k_rf2) times the
\* displacement (dx, dy, dz), the force on particle j is its negation, so the
\* magnitude of both is |qq*(rinv*rinvsq - k_rf2)|*d  (PairD is twice the
\* displacement, PairRsq four times d*d).
C19_RFMagnitudeTimesDistance ==
  last.valid =>
    \A m \in Modes : \A n \in EvIdx :
      RFPair(m, n) =>
        /\ ev[m][n].dfi = <<4 * RFScalar(n) * PairD(n, 0), 4 * RFScalar(n) * PairD(n, 1),
                            4 * RFScalar(n) * PairD(n, 2)>>
        /\ ev[m][n].df = Neg(ev[m][n].dfi)
        /\ SqNorm(ev[m][n].dfi) = (4 * RFScalar(n)) * (4 * RFScalar(n)) * PairRsq(n)
        /\ SqNorm(ev[m][n].df) = (4 * RFScalar(n)) * (4 * RFScalar(n)) * PairRsq(n)

\* such a pair at distance 1/2, where rinv = 2 and the two formulas differ
C19_Witness ==
  /\ last.valid
  /\ \E n \in EvIdx :
       /\ RFPair("none", n)
       /\ PairRsq(n) = 1
       /\ ev["none"][n].dfi # <<0, 0, 0>>

\* C20: with CHECK_EXCLS and without CALC_COULOMB a pair whose mask bit is 0
\* is skipped before anything is computed from its distance: no force entry,
\* no energy accumulator and no pair count changes, at any distance.
C20_ExcludedSkippedFast ==
  (last.valid /\ cfg.CHECK_EXCLS /\ ~cfg.CALC_COULOMB) =>
    \A m \in Modes : \A n \in EvIdx : PairBit(n) = 0 => ev[m][n] = NoEvent

\* excluded pairs inside the cutoff and at distance zero, in a block where
\* another pair is evaluated
C20_Witness ==
  /\ last.valid /\ cfg.CHECK_EXCLS /\ ~cfg.CALC_COULOMB
  /\ \E n \in EvIdx : PairBit(n) = 0 /\ InRange(n)
  /\ \E n \in EvIdx : PairBit(n) = 0 /\ PairRsq(n) = 0
  /\ \E n \in EvIdx : PairBit(n) = 1 /\ ev["grp"][n].dn = 1

\* the n-th pair is on the diagonal the exclusion-forces mode suppresses
OnDiagonal(n) == last.cj = ci_sh /\ PairJ(n) <= PairI(n)

\* the interact-independent Coulomb factor of the n-th pair (4 times it):
\* -qq*k_rf2 for reaction-field, -qq*rinv*fexcl for the table
ExclFcoul4(n) ==
  IF cfg.CALC_COUL_RF
  THEN 0 - 4 * q[PairAi(n)] * q[PairAj(n)] * k_rf2
  ELSE 0 - q[PairAi(n)] * q[PairAj(n)] * gmx_invsqrt(PairRsq(n))
             * Fexcl4(PairRsq(n), gmx_invsqrt(PairRsq(n)))

C22_ExcludedNothingWithEnergies ==
  (last.valid /\ cfg.CHECK_EXCLS) =>
    \A m \in {"tot", "grp"} : \A n \in EvIdx :
      PairBit(n) = 0 =>
        /\ ev[m][n].dfi = <<0, 0, 0>>
        /\ ev[m][n].df = <<0, 0, 0>>
        /\ ev[m][n].dvc = 0

\* C26 as stated: in every configuration gmx_invsqrt is evaluated only for
\* rsq > 0: no evaluated pair has rsq = 0.
C26_InvsqrtOnlyPositive ==
  \A m \in Modes :
    /\ ~badrinv[m]
    /\ last.valid => \A n \in EvIdx : ev[m][n].dn = 1 => PairRsq(n) > 0

\* C26 amended: gmx_invsqrt is evaluated for rsq > 0 only in the builds with
\* exclusion forces (CHECK_EXCLS and CALC_COULOMB); in the other builds a pair
\* at distance zero is evaluated, and gmx_invsqrt(0) taken, exactly when the
\* pair is not excluded (its mask bit is 1, or CHECK_EXCLS is not defined).
C26_InvsqrtGuardOnlyExclForces ==
  \A m \in Modes :
    /\ badrinv[m] => ~(cfg.CHECK_EXCLS /\ cfg.CALC_COULOMB)
    /\ last.valid =>
         \A n \in EvIdx :
           PairRsq(n) <= 0 =>
             (ev[m][n].dn = 1 <=>
                /\ ~(cfg.CHECK_EXCLS /\ cfg.CALC_COULOMB)
                /\ ~cfg.CHECK_EXCLS \/ PairBit(n) = 1)

\* two coincident particles of different clusters, not excluded, in a build
\* with CHECK_EXCLS and without Coulomb: the pair is evaluated
C26_Witness ==
  /\ last.valid /\ cfg.CHECK_EXCLS /\ ~cfg.CALC_COULOMB
  /\ last.cj # ci
  /\ badrinv["none"]
  /\ \E n \in EvIdx : PairRsq(n) = 0 /\ PairBit(n) = 1 /\ ev["none"][n].dn = 1

\* empty buffers for the kernel of energy mode m
FreshBuf(m) ==
  [f |-> Zeros(NAtoms * 3), fi |-> Zeros(UNROLLI * 3),
   Vvdw |-> Zeros(NSlots(m)), Vc |-> Zeros(NSlots(m)),
   Vvdw_ci |-> 0, Vc_ci |-> 0, npair |-> 0, badrinv |-> FALSE, etouch |-> 0]

\* the kernel of energy mode m built with the other setting of CHECK_EXCLS
OtherBuild(m) == [Cfg(m) EXCEPT !.CHECK_EXCLS = ~cfg.CHECK_EXCLS]

\* the updates the build c makes for the last entry, pair by pair
BlockEvents(c, m) == InnerLoopBlock(c, Entry(last.cj, last.excl), FreshBuf(m)).ev

\* the last entry has every mask bit set, is not the self entry and has no
\* pair at distance zero
PlainEntry ==
  /\ last.valid
  /\ last.excl = MaskOf(Pairs)
  /\ last.cj # ci_sh
  /\ \A n \in EvIdx : PairRsq(n) > 0

\* C29: for an entry with every mask bit set, cj # ci_sh and no pair at
\* distance zero, the kernel built with CHECK_EXCLS and the kernel built
\* without it make the same force, energy and count updates, pair by pair,
\* for reaction-field and table, with and without HALF_LJ.
C29_CheckExclsTransparent ==
  PlainEntry =>
    \A m \in Modes :
      /\ ev[m] = BlockEvents(Cfg(m), m)
      /\ ev[m] = BlockEvents(OtherBuild(m), m)

\* such an entry in a build with exclusion forces, with pairs inside and
\* outside the cutoff
C29_Witness ==
  /\ PlainEntry /\ cfg.CHECK_EXCLS /\ cfg.CALC_COULOMB
  /\ \E n \in EvIdx : ev["grp"][n].dfi # <<0, 0, 0>> /\ ev["grp"][n].dvc # 0
  /\ \E n \in EvIdx : PairRsq(n) >= rcut2

(***************************************************************************)
(* Further properties of the comparison method (specification SpecCmp).    *)
(***************************************************************************)
\* a op b on exact values, for an operator string
OpHolds(op, a, b) ==
  IF op = <<"<">> THEN a < b
  ELSE IF op = <<"<", "=">> THEN a <= b
  ELSE IF op = <<">">> THEN a > b
  ELSE IF op = <<">", "=">> THEN a >= b
  ELSE IF op = <<"=", "=">> THEN a = b
  ELSE a # b

OrderOps == {<<"<">>, <<"<", "=">>, <<">">>, <<">", "=">>}

\* the integers the converted value is compared with
ProbeInts == 0..4

\* a static real against a dynamic integer, real on side rs
StaticRealDynInt(rs) ==
  /\ OrigSet(0) /\ OrigSet(3)
  /\ OrigReal(rs) /\ ~OrigDyn(rs)
  /\ ~OrigReal(3 - rs) /\ OrigDyn(3 - rs)

\* C23: for a static real r converted by convert_real_int and every integer
\* a, the integer comparison with the converted value has the truth value of
\* the mixed comparison as written, for <, <=, >, >=: real on the right,
\* ceil(r) for < and >= and floor(r) for > and <=; real on the left, the
\* rounding of the reversed operator.
C23_RoundingPreservesComparison ==
  (InitDone /\ data.cmpop \in OrderOps) =>
    /\ StaticRealDynInt(3) =>
         \A k \in 1..OrigParam(3).nr :
           LET r  == mem[OrigParam(3).ptr].v[k]
               iv == mem[data.right.i].v[k]
           IN  /\ iv = IF data.cmpop \in {<<"<">>, <<">", "=">>} THEN Ceil(r) ELSE Floor(r)
               /\ \A a \in ProbeInts :
                    AcceptInt(data.cmpt, a, iv) = OpHolds(data.cmpop, IntToReal(a), r)
    /\ StaticRealDynInt(0) =>
         \A k \in 1..OrigParam(0).nr :
           LET r  == mem[OrigParam(0).ptr].v[k]
               iv == mem[data.left.i].v[k]
           IN  /\ iv = IF data.cmpop \in {<<">">>, <<"<", "=">>} THEN Ceil(r) ELSE Floor(r)
               /\ \A a \in ProbeInts :
                    AcceptInt(data.cmpt, iv, a) = OpHolds(data.cmpop, r, IntToReal(a))

\* a static real that is not an integer, on the left of <, converted (down)
C23_Witness ==
  /\ cpc = "ready" /\ data.cmpop = <<"<">>
  /\ StaticRealDynInt(0)
  /\ "CMP_ALLOCINT" \in data.left.flags
  /\ \E k \in 1..OrigParam(0).nr :
       /\ mem[OrigParam(0).ptr].v[k] % RealDen # 0
       /\ IntToReal(mem[data.left.i].v[k]) < mem[OrigParam(0).ptr].v[k]

\* e_comparison_t
CmpTypes == {"CMP_INVALID", "CMP_LESS", "CMP_LEQ", "CMP_GTR", "CMP_GEQ", "CMP_EQUAL", "CMP_NEQ"}

\* the reals the operators are tried on
ProbeReals == {IntToReal(a) : a \in ProbeInts} \cup StaticRealVals \cup RealVals

\* a dynamic integer on the left and a dynamic real on the right
SwapCase ==
  /\ OrigSet(0) /\ OrigSet(3)
  /\ OrigDyn(0) /\ ~OrigReal(0) /\ OrigDyn(3) /\ OrigReal(3)

\* init_compare has exchanged the operands
Swapped == InitDone /\ SwapCase

\* C24: reverse_comparison_type(op) is the operator for which `a op b' and
\* `b reverse(op) a' have the same truth value for all a and b; it exchanges
\* < with > and <= with >=, leaves ==, != and CMP_INVALID unchanged, and is
\* its own inverse.  Where init_compare has reversed the operator, the stored
\* one is the reverse of the parsed one.
C24_ReverseIsMirror ==
  /\ \A t \in CmpTypes :
       /\ \A a \in ProbeInts, b \in ProbeInts :
            AcceptInt(t, a, b) = AcceptInt(reverse_comparison_type(t), b, a)
       /\ \A a \in ProbeReals, b \in ProbeReals :
            AcceptReal(t, a, b) = AcceptReal(reverse_comparison_type(t), b, a)
       /\ reverse_comparison_type(reverse_comparison_type(t)) = t
       /\ t \in {"CMP_EQUAL", "CMP_NEQ", "CMP_INVALID"} => reverse_comparison_type(t) = t
  /\ reverse_comparison_type("CMP_LESS") = "CMP_GTR"
  /\ reverse_comparison_type("CMP_GTR") = "CMP_LESS"
  /\ reverse_comparison_type("CMP_LEQ") = "CMP_GEQ"
  /\ reverse_comparison_type("CMP_GEQ") = "CMP_LEQ"
  /\ Swapped =>
       /\ data.cmpt = reverse_comparison_type(comparison_type(data.cmpop))
       /\ data.cmpop \in SixOps =>
            \A a \in ProbeInts, b \in ProbeInts :
              AcceptInt(data.cmpt, b, a) = OpHolds(data.cmpop, a, b)

\* init_compare has reversed <= into >=
C24_Witness ==
  /\ Swapped /\ cpc = "ready"
  /\ data.cmpop = <<"<", "=">> /\ data.cmpt = "CMP_GEQ"

\* init_compare has run (and returned or thrown)
InitRun == cpc \in {"ready", "evaluated", "failed", "freed"}

\* an operand without a value: neither parameter set, or no values
MissingOperand == \E side \in {0, 3} : ~OrigSet(side) \/ OrigParam(side).nr = 0

\* the operator string does not start with one of the six operators, a < or >
\* followed by something else than = counting as < or >
OpUnknown(str) ==
  ~ \/ CharAt(str, 0) \in {"<", ">"}
    \/ CharAt(str, 0) \in {"=", "!"} /\ CharAt(str, 1) = "="

\* the operand of that side is stored as init_comparison_value left it
Unconverted(side) ==
  /\ DataSide(side).flags \cap {"CMP_ALLOCINT", "CMP_ALLOCREAL"} = {}
  /\ OrigSet(side) =>
       /\ ("CMP_REALVAL" \in DataSide(side).flags) = OrigReal(side)
       /\ ("CMP_DYNAMICVAL" \in DataSide(side).flags) = OrigDyn(side)
       /\ (IF OrigReal(side) THEN DataSide(side).r ELSE DataSide(side).i) = OrigParam(side).ptr

\* C25: init_compare throws InternalError, before any conversion or exchange,
\* when an operand has no value or the operator string is unknown; a lone =
\* or ! is unknown, < or > followed by another character than = is < or >.
C25_SetupInternalErrors ==
  InitRun =>
    /\ (MissingOperand \/ OpUnknown(data.cmpop)) =>
         /\ err = "InternalError"
         /\ cpc \in {"failed", "freed"}
         /\ Unconverted(0) /\ Unconverted(3)
         /\ mem[HeapArray].st = "none"
         /\ g = <<>> /\ out = <<>>
    /\ OpUnknown(<<"=">>) /\ OpUnknown(<<"!">>) /\ ~OpUnknown(<<"<", ">">>)
    /\ (~MissingOperand /\ data.cmpop = <<"<", ">">>) =>
         /\ err = "none"
         /\ data.cmpt = IF SwapCase THEN "CMP_GTR" ELSE "CMP_LESS"

\* a lone = between a static integer and a real: thrown before the conversion
C25_Witness ==
  /\ cpc = "failed" /\ err = "InternalError"
  /\ data.cmpop = <<"=">>
  /\ ~MissingOperand
  /\ ~OrigReal(0) /\ ~OrigDyn(0) /\ OrigReal(3)

\* the array p is there: a parameter's array or a live allocated one
ArraySet(p) == p # 0 /\ mem[p].st \in {"param", "heap"}

\* C27: after a normal return of init_compare, if an operand carries
\* CMP_REALVAL the left one does and its real array is set, the right one has
\* the array of its type set; otherwise both integer arrays are set; no
\* evaluation reads an array that is not there.
C27_EvaluatedArraysSet ==
  /\ ~ub
  /\ InitDone =>
       IF "CMP_REALVAL" \in (data.left.flags \cup data.right.flags)
       THEN /\ "CMP_REALVAL" \in data.left.flags
            /\ ArraySet(data.left.r)
            /\ IF "CMP_REALVAL" \in data.right.flags
               THEN ArraySet(data.right.r) ELSE ArraySet(data.right.i)
       ELSE ArraySet(data.left.i) /\ ArraySet(data.right.i)

\* evaluated after the exchange of a dynamic integer and a dynamic real
C27_Witness ==
  /\ cpc = "evaluated" /\ SwapCase
  /\ "CMP_REALVAL" \in data.left.flags /\ "CMP_REALVAL" \notin data.right.flags
  /\ Len(g) = MaxGroup /\ out # <<>>

\* C28: whatever init_compare did, an operand has CMP_ALLOCINT
\* (CMP_ALLOCREAL) exactly when its integer (real) array is the one a
\* conversion allocated; an allocated array is live until free_data_compare
\* and freed exactly once; the arrays of the parameters are never freed.
C28_AllocFlagsAndFrees ==
  /\ \A p \in ParamArrays : mem[p].st = "param" /\ mem[p].nfree = 0
  /\ mem[HeapArray].nfree <= 1
  /\ InitRun =>
       /\ \A side \in {0, 3} :
            /\ "CMP_ALLOCINT" \in DataSide(side).flags <=> DataSide(side).i = HeapArray
            /\ "CMP_ALLOCREAL" \in DataSide(side).flags <=> DataSide(side).r = HeapArray
       /\ cpc # "freed" =>
            (mem[HeapArray].st = "heap" <=>
               (data.left.flags \cup data.right.flags) \cap {"CMP_ALLOCINT", "CMP_ALLOCREAL"} # {})
       /\ mem[HeapArray].st = "heap" => mem[HeapArray].nfree = 0
       /\ mem[HeapArray].st = "freed" => mem[HeapArray].nfree = 1
       /\ cpc = "freed" => mem[HeapArray].st \in {"none", "freed"}

\* a converted operand's array freed by free_data_compare, the parameter
\* arrays untouched
C28_Witness ==
  /\ cpc = "freed" /\ err = "none"
  /\ "CMP_ALLOCREAL" \in data.left.flags
  /\ mem[HeapArray].st = "freed" /\ mem[HeapArray].nfree = 1
  /\ Len(mem[HeapArray].v) > 0

\* C30: for a dynamic integer on the left and a dynamic real on the right
\* init_compare exchanges the arrays and the flags of the two operands and
\* reverses the operator; every evaluation then accepts exactly the positions
\* where `int op real' as written holds.
C30_SwapPreservesMeaning ==
  (Swapped /\ data.cmpop \in SixOps) =>
    /\ data.left.r = OrigParam(3).ptr /\ data.left.i = 0
    /\ data.right.i = OrigParam(0).ptr /\ data.right.r = 0
    /\ "CMP_REALVAL" \in data.left.flags /\ "CMP_REALVAL" \notin data.right.flags
    /\ ("CMP_SINGLEVAL" \in data.left.flags) = ~OrigAtom(3)
    /\ ("CMP_SINGLEVAL" \in data.right.flags) = ~OrigAtom(0)
    /\ data.cmpt = reverse_comparison_type(comparison_type(data.cmpop))
    /\ cpc = "evaluated" =>
         \A k \in 1..Len(g) :
           g[k] \in Range(out) <=>
             IF data.cmpop \in EqOps
             THEN (data.cmpop = <<"=", "=">>) = gmx_within_tol(OrigVal(0, k), OrigVal(3, k))
             ELSE OpHolds(data.cmpop, OrigVal(0, k), OrigVal(3, k))

\* a per-atom integer < a single real, exchanged and evaluated, some
\* positions accepted and some not
C30_Witness ==
  /\ Swapped /\ cpc = "evaluated"
  /\ data.cmpop = <<"<">> /\ data.cmpt = "CMP_GTR"
  /\ OrigAtom(0) /\ ~OrigAtom(3)
  /\ Len(g) = MaxGroup
  /\ out # <<>> /\ out # g

====
